---- MODULE Spec2Model ----
(***************************************************************************)
(* Tenant-scoped RBAC of webwaka-core-permissions: the in-memory role and  *)
(* assignment stores (storage.ts), the CasbinEnforcer adapter              *)
(* (casbin-adapter.ts) and the PermissionsService that orchestrates them   *)
(* (permissions-service.ts).                                               *)
(*                                                                         *)
(* Every async method is cut at its awaits: one action is one run of code  *)
(* between two awaits (JavaScript runs such a block without interruption), *)
(* and the blocks of concurrent calls interleave freely.  The in-memory    *)
(* stores and the adapter-less casbin Enforcer do their work in the        *)
(* synchronous part of a call, so a call is one block.                     *)
(***************************************************************************)
EXTENDS Integers, Sequences, FiniteSets, TLC

VARIABLES
    roles,        \* InMemoryRoleStorage.roles: Map key -> Role
    assignments,  \* InMemoryUserRoleStorage.assignments: Map key -> assignment
    enforcer,     \* CasbinEnforcer.enforcer: 0 is null, else an index of insts
    insts,        \* the casbin Enforcer objects created so far, each [p, g]
    issued,       \* the roleIds generateId has returned so far
    procs,        \* the calls in flight, one record per caller
    ops           \* number of calls that may still be started (bounds the run)

vars == <<roles, assignments, enforcer, insts, issued, procs, ops>>

(***************************************************************************)
(* Input universes.  Tenant "a:b" extends tenant "a" by a ':'; role id     *)
(* "b:r" does the same for role "r"; the string "r" is a user id and a     *)
(* role id at once.                                                        *)
(***************************************************************************)
Tenants == {"a", "a:b"}
Caps == {"m:x", "m:y"}
GenIds == {"r", "s"}
Users == {"u", "r"}
RoleIds == {"r", "s", "b:r"}

NoRole == [tenantId |-> "", roleId |-> "", name |-> "", capabilities |-> {}]

Range(s) == {s[i] : i \in 1..Len(s)}
Values(m) == {m[k] : k \in DOMAIN m}

\* String.prototype.startsWith
startsWith(s, prefix) ==
    Len(s) >= Len(prefix) /\ SubSeq(s, 1, Len(prefix)) = prefix

\* Map.set / Map.delete on a map kept as a function over its keys
MapSet(m, k, v) == [x \in (DOMAIN m) \cup {k} |-> IF x = k THEN v ELSE m[x]]
MapDelete(m, k) == [x \in (DOMAIN m) \ {k} |-> m[x]]
EmptyMap == [x \in {} |-> NoRole]

(***************************************************************************)
(* InMemoryRoleStorage                                                     *)
(***************************************************************************)
RS_getKey(tenantId, roleId) == tenantId \o ":" \o roleId

RS_has(rs, tenantId, roleId) == RS_getKey(tenantId, roleId) \in DOMAIN rs

\* getRole: the role under the key, or NoRole for null
RS_getRole(rs, tenantId, roleId) ==
    IF RS_has(rs, tenantId, roleId) THEN rs[RS_getKey(tenantId, roleId)] ELSE NoRole

RS_createRole(rs, role) == MapSet(rs, RS_getKey(role.tenantId, role.roleId), role)

\* updateRole: spread existing, then updates, then the immutable fields again
RS_merge(existing, hasName, name, hasCaps, caps) ==
    [tenantId |-> existing.tenantId,
     roleId |-> existing.roleId,
     name |-> IF hasName THEN name ELSE existing.name,
     capabilities |-> IF hasCaps THEN caps ELSE existing.capabilities]

RS_updateRole(rs, tenantId, roleId, hasName, name, hasCaps, caps) ==
    MapSet(rs, RS_getKey(tenantId, roleId),
           RS_merge(rs[RS_getKey(tenantId, roleId)], hasName, name, hasCaps, caps))

\* updateRole called with any Partial<Role>: {...existing, ...updates} and the
\* immutable fields again, for roles that carry createdAt
RS_mergePartial(existing, updates) ==
    [tenantId |-> existing.tenantId,
     roleId |-> existing.roleId,
     createdAt |-> existing.createdAt,
     name |-> IF "name" \in DOMAIN updates THEN updates.name ELSE existing.name,
     capabilities |-> IF "capabilities" \in DOMAIN updates THEN updates.capabilities
                      ELSE existing.capabilities]

RS_updateRolePartial(rs, tenantId, roleId, updates) ==
    MapSet(rs, RS_getKey(tenantId, roleId),
           RS_mergePartial(rs[RS_getKey(tenantId, roleId)], updates))

RS_deleteRole(rs, tenantId, roleId) == MapDelete(rs, RS_getKey(tenantId, roleId))

RS_listRoles(rs, tenantId) == {rs[k] : k \in {x \in DOMAIN rs : rs[x].tenantId = tenantId}}

(***************************************************************************)
(* InMemoryUserRoleStorage                                                 *)
(***************************************************************************)
URS_getKey(tenantId, userId, roleId) == tenantId \o ":" \o userId \o ":" \o roleId
URS_getUserKey(tenantId, userId) == tenantId \o ":" \o userId \o ":"
URS_getRoleKey(tenantId, roleId) == tenantId \o ":"

URS_assignRole(as, a) == MapSet(as, URS_getKey(a.tenantId, a.userId, a.roleId), a)
URS_removeRole(as, tenantId, userId, roleId) ==
    MapDelete(as, URS_getKey(tenantId, userId, roleId))

\* getUserRoles: roleId of every entry whose key starts with the user key
URS_getUserRoles(as, tenantId, userId) ==
    {as[k].roleId : k \in {x \in DOMAIN as : startsWith(x, URS_getUserKey(tenantId, userId))}}

\* getRoleUsers: userId of every entry whose key starts with the role key and
\* whose roleId field is roleId
URS_getRoleUsers(as, tenantId, roleId) ==
    {as[k].userId : k \in {x \in DOMAIN as :
        startsWith(x, URS_getRoleKey(tenantId, roleId)) /\ as[x].roleId = roleId}}

\* the modelled fields of a Role and of a UserRoleAssignment
Role(tenantId, roleId, caps) ==
    [tenantId |-> tenantId, roleId |-> roleId, name |-> "n", capabilities |-> caps]
Assignment(tenantId, userId, roleId) ==
    [tenantId |-> tenantId, userId |-> userId, roleId |-> roleId]

\* the role map after createRole of each role of S, the assignment map after
\* assignRole of each edge of S
RoleMap(S) ==
    [k \in {RS_getKey(x.tenantId, x.roleId) : x \in S} |->
        CHOOSE x \in S : RS_getKey(x.tenantId, x.roleId) = k]
AssignmentMap(S) ==
    [k \in {URS_getKey(x.tenantId, x.userId, x.roleId) : x \in S} |->
        CHOOSE x \in S : URS_getKey(x.tenantId, x.userId, x.roleId) = k]

(***************************************************************************)
(* The casbin Enforcer built from RBAC_MODEL, with no adapter: p is the    *)
(* policy list (rules <<sub, dom, act>>; its order is never observed but   *)
(* through iteration, which the actions take in any order), g the grouping *)
(* list (rules <<user, role, dom>>, in insertion order).                   *)
(***************************************************************************)
EmptyEnforcer == [p |-> {}, g |-> <<>>]

C_addPolicy(e, rule) == [e EXCEPT !.p = @ \cup {rule}]
C_removePolicy(e, rule) == [e EXCEPT !.p = @ \ {rule}]

\* a filter that compares the first value only
C_matches_firstValue(rule, fieldIndex, values) ==
    values[1] = "" \/ rule[fieldIndex + 1] = values[1]

\* a filter value "" matches any field value
C_matches(rule, fieldIndex, values) ==
    \A i \in 1..Len(values) : values[i] = "" \/ rule[fieldIndex + i] = values[i]

C_getFilteredPolicy(e, fieldIndex, values) ==
    {rule \in e.p : C_matches(rule, fieldIndex, values)}

\* addGroupingPolicy that appends a rule already present
C_addGroupingPolicy_append(e, rule) == [e EXCEPT !.g = Append(@, rule)]

C_addGroupingPolicy(e, rule) ==
    IF rule \in Range(e.g) THEN e ELSE [e EXCEPT !.g = Append(@, rule)]
C_removeGroupingPolicy(e, rule) ==
    [e EXCEPT !.g = SelectSeq(@, LAMBDA x : x # rule)]

C_getFilteredGroupingPolicy(e, fieldIndex, values) ==
    SelectSeq(e.g, LAMBDA rule : C_matches(rule, fieldIndex, values))

\* the role manager's links of one domain
C_links(e, dom) == {<<x[1], x[2]>> : x \in {y \in Range(e.g) : y[3] = dom}}

RECURSIVE C_reach(_, _)
C_reach(links, S) ==
    LET N == S \cup {l[2] : l \in {x \in links : x[1] \in S}}
    IN  IF N = S THEN S ELSE C_reach(links, N)

\* g(name1, name2, dom): the default role manager's hasLink, true for equal
\* names and along chains of links (its depth limit of 10 exceeds every chain
\* of the universes used here)
C_hasLink(e, name1, name2, dom) ==
    name1 = name2 \/ name2 \in C_reach(C_links(e, dom), {name1})

\* m = g(r.sub, p.sub, r.dom) && r.dom == p.dom && r.act == p.act
RBAC_MODEL(e, rule, sub, dom, act) ==
    C_hasLink(e, sub, rule[1], dom) /\ dom = rule[2] /\ act = rule[3]

\* e = some(where (p.eft == allow))
C_enforce(e, sub, dom, act) == \E rule \in e.p : RBAC_MODEL(e, rule, sub, dom, act)

(***************************************************************************)
(* CasbinEnforcer queries, as one uninterrupted evaluation on Enforcer e   *)
(***************************************************************************)
\* the user's direct roles in the tenant, in insertion order
\* the user's roles of the tenant, last grouping first
tenantRoles_reversed(e, tenantId, userId) ==
    LET userRoles == SelectSeq(C_getFilteredGroupingPolicy(e, 0, <<userId>>),
                               LAMBDA x : x[3] = tenantId)
    IN  [i \in 1..Len(userRoles) |-> userRoles[Len(userRoles) + 1 - i][2]]

tenantRoles(e, tenantId, userId) ==
    LET userRoles == SelectSeq(C_getFilteredGroupingPolicy(e, 0, <<userId>>),
                               LAMBDA x : x[3] = tenantId)
    IN  [i \in 1..Len(userRoles) |-> userRoles[i][2]]

enforce(e, tenantId, userId, capability) == C_enforce(e, userId, tenantId, capability)

getGrantingRoles(e, tenantId, userId, capability) ==
    SelectSeq(tenantRoles(e, tenantId, userId),
              LAMBDA roleId : C_getFilteredPolicy(e, 0, <<roleId, tenantId, capability>>) # {})

getUserCapabilities(e, tenantId, userId) ==
    UNION {{pol[3] : pol \in C_getFilteredPolicy(e, 0, <<roleId, tenantId>>)} :
           roleId \in Range(tenantRoles(e, tenantId, userId))}

getUserRoles(e, tenantId, userId) == tenantRoles(e, tenantId, userId)

(***************************************************************************)
(* validation.ts: the zod schemas, as predicates that hold of the inputs   *)
(* schema.parse accepts (validate throws on all others)                    *)
(***************************************************************************)
\* the characters of the class [a-z0-9-]
CapabilityChars ==
    {"a", "b", "c", "d", "e", "f", "g", "h", "i", "j", "k", "l", "m", "n", "o", "p",
     "q", "r", "s", "t", "u", "v", "w", "x", "y", "z",
     "0", "1", "2", "3", "4", "5", "6", "7", "8", "9", "-"}

\* [a-z0-9-]+ matches the whole of s[i..j]
RECURSIVE matchesClass(_, _, _)
matchesClass(s, i, j) ==
    IF i > j THEN TRUE
    ELSE SubSeq(s, i, i) \in CapabilityChars /\ matchesClass(s, i + 1, j)

\* z.string().min(1).max(255)
TenantIdSchema(s) == Len(s) >= 1 /\ Len(s) <= 255
UserIdSchema(s) == Len(s) >= 1 /\ Len(s) <= 255
RoleIdSchema(s) == Len(s) >= 1 /\ Len(s) <= 255
RoleNameSchema(s) == Len(s) >= 1 /\ Len(s) <= 255

\* a schema for capabilities that accepts every string
CapabilityIdSchema_any(s) == TRUE

\* z.string().regex(/^[a-z0-9-]+:[a-z0-9-]+$/)
CapabilityIdSchema(s) ==
    \E k \in 2..(Len(s) - 1) :
        /\ SubSeq(s, k, k) = ":"
        /\ matchesClass(s, 1, k - 1)
        /\ matchesClass(s, k + 1, Len(s))

\* z.object({tenantId, name, capabilities: z.array(CapabilityIdSchema), ...})
CreateRoleInputSchema(tenantId, name, capabilities) ==
    /\ TenantIdSchema(tenantId)
    /\ RoleNameSchema(name)
    /\ \A capability \in capabilities : CapabilityIdSchema(capability)

\* z.object({name: optional, capabilities: optional array, ...})
UpdateRoleInputSchema(hasName, name, hasCaps, capabilities) ==
    /\ hasName => RoleNameSchema(name)
    /\ hasCaps => \A capability \in capabilities : CapabilityIdSchema(capability)

PermissionCheckInputSchema(tenantId, userId, capability) ==
    TenantIdSchema(tenantId) /\ UserIdSchema(userId) /\ CapabilityIdSchema(capability)

AssignRoleInputSchema(tenantId, userId, roleId) ==
    TenantIdSchema(tenantId) /\ UserIdSchema(userId) /\ RoleIdSchema(roleId)

(***************************************************************************)
(* Callers.  A caller is idle, or inside one call at label pc; a finished  *)
(* call stays visible (pc = "done", with its arguments and result) until   *)
(* the caller starts the next one.                                         *)
(***************************************************************************)
\* matchedRoles (an optional property of PermissionCheckResult) is the set of
\* its values: empty in an object that has no such property
NoRes ==
    [ok |-> TRUE, allowed |-> FALSE, roleIds |-> {}, caps |-> {}, grantedBy |-> <<>>,
     reason |-> "", matchedRoles |-> {}, grantingRoles |-> <<>>, role |-> NoRole]

\* the Enforcer a query would read now (a missing one is created empty)
Cur == IF enforcer = 0 THEN EmptyEnforcer ELSE insts[enforcer]

\* stores and index as a call finds them when it starts (kept for comparing
\* the state after the call with the state before it)
NoSnapshot == [roles |-> EmptyMap, assignments |-> EmptyMap, idx |-> EmptyEnforcer]
Snapshot == [roles |-> roles, assignments |-> assignments, idx |-> Cur]

IdleProc ==
    [pc |-> "idle", op |-> "none", t |-> "", u |-> "", r |-> "", c |-> "",
     hasName |-> FALSE, name |-> "", hasCaps |-> FALSE, caps |-> {},
     prim |-> "", ret |-> "", ref |-> 0, cur |-> "",
     found |-> FALSE, rest |-> {}, todo |-> {}, list |-> <<>>, acc |-> <<>>,
     racc |-> {}, res |-> NoRes, pre |-> NoSnapshot,
     capabilities |-> <<>>, clist |-> <<>>, asked |-> <<>>,
     allGrantedBy |-> <<>>, missing |-> <<>>, role |-> NoRole, updates |-> <<>>]

CanStart(p) == procs[p].pc \in {"idle", "done"} /\ ops > 0

\* a new call: the record a caller starts from
Call(op, t, u, r, c) ==
    [IdleProc EXCEPT !.op = op, !.t = t, !.u = u, !.r = r, !.c = c, !.pre = Snapshot]

\* return or throw: the temporaries die, arguments and result stay
Finish(rec, res) ==
    [IdleProc EXCEPT !.pc = "done", !.op = rec.op, !.t = rec.t, !.u = rec.u,
                     !.r = rec.r, !.c = rec.c, !.hasName = rec.hasName,
                     !.name = rec.name, !.hasCaps = rec.hasCaps,
                     !.caps = rec.caps, !.res = res, !.pre = rec.pre,
                     !.capabilities = rec.capabilities, !.asked = rec.asked,
                     !.role = rec.role, !.updates = rec.updates]

Throw(rec) == Finish(rec, [NoRes EXCEPT !.ok = FALSE])

SetProc(p, rec) == procs' = [procs EXCEPT ![p] = rec]
Started == ops' = ops - 1

\* ensureInitialized, synchronous part: with an Enforcer present the call goes
\* on with it at label prim; with none, initialize() is started
ensureInitialized(rec, prim, ret) ==
    [rec EXCEPT !.pc = IF enforcer = 0 THEN "e_init" ELSE prim,
                !.prim = prim, !.ret = ret, !.ref = enforcer]

\* initialize(): newEnforcer resolves; this.enforcer is overwritten
initialize(p) ==
    /\ procs[p].pc = "e_init"
    /\ insts' = Append(insts, EmptyEnforcer)
    /\ enforcer' = Len(insts) + 1
    /\ SetProc(p, [procs[p] EXCEPT !.pc = "e_initret"])
    /\ UNCHANGED <<roles, assignments, issued, ops>>

\* ensureInitialized after its await: return this.enforcer!
ensureReturn(p) ==
    /\ procs[p].pc = "e_initret"
    /\ SetProc(p, [procs[p] EXCEPT !.pc = procs[p].prim, !.ref = enforcer])
    /\ UNCHANGED <<roles, assignments, enforcer, insts, issued, ops>>

\* the Enforcer a call holds
Held(p) == insts[procs[p].ref]
SetHeld(p, e) == insts' = [insts EXCEPT ![procs[p].ref] = e]
Back(p) == [procs[p] EXCEPT !.pc = procs[p].ret]

(***************************************************************************)
(* CasbinEnforcer primitives, after ensureInitialized                      *)
(***************************************************************************)
\* addRolePolicy: enforcer.addPolicy(roleId, tenantId, capability)
e_addPolicy(p) ==
    /\ procs[p].pc = "e_addPolicy"
    /\ SetHeld(p, C_addPolicy(Held(p), <<procs[p].r, procs[p].t, procs[p].cur>>))
    /\ SetProc(p, Back(p))
    /\ UNCHANGED <<roles, assignments, enforcer, issued, ops>>

\* a rejected enforcer.addPolicy that addRolePolicy keeps to itself
e_addPolicyFails_swallowed(p) ==
    /\ procs[p].pc = "e_addPolicy"
    /\ SetProc(p, Back(p))
    /\ UNCHANGED <<roles, assignments, enforcer, insts, issued, ops>>

\* addRolePolicy: enforcer.addPolicy rejects; nothing catches the rejection,
\* so addRolePolicy and the service call awaiting it reject too
e_addPolicyFails(p) ==
    /\ procs[p].pc = "e_addPolicy"
    /\ SetProc(p, Throw(procs[p]))
    /\ UNCHANGED <<roles, assignments, enforcer, insts, issued, ops>>

\* removePolicy that rejects when the rule is not in the policy list
e_removePolicy_strict(p) ==
    /\ procs[p].pc = "e_removePolicy"
    /\ IF <<procs[p].r, procs[p].t, procs[p].cur>> \in Held(p).p
       THEN /\ SetHeld(p, C_removePolicy(Held(p), <<procs[p].r, procs[p].t, procs[p].cur>>))
            /\ SetProc(p, Back(p))
       ELSE /\ insts' = insts
            /\ SetProc(p, Throw(procs[p]))
    /\ UNCHANGED <<roles, assignments, enforcer, issued, ops>>

\* removeRolePolicy: enforcer.removePolicy(roleId, tenantId, capability)
e_removePolicy(p) ==
    /\ procs[p].pc = "e_removePolicy"
    /\ SetHeld(p, C_removePolicy(Held(p), <<procs[p].r, procs[p].t, procs[p].cur>>))
    /\ SetProc(p, Back(p))
    /\ UNCHANGED <<roles, assignments, enforcer, issued, ops>>

\* clearRolePolicies that filters by the role id alone
e_clearSnapshot_anyTenant(p) ==
    /\ procs[p].pc = "e_clear"
    /\ LET policies == C_getFilteredPolicy(Held(p), 0, <<procs[p].r>>)
       IN  SetProc(p, [procs[p] EXCEPT !.todo = policies,
                          !.pc = IF policies = {} THEN procs[p].ret ELSE "e_clear_rm"])
    /\ UNCHANGED <<roles, assignments, enforcer, insts, issued, ops>>

\* clearRolePolicies: policies = getFilteredPolicy(0, roleId, tenantId)
e_clearSnapshot(p) ==
    /\ procs[p].pc = "e_clear"
    /\ LET policies == C_getFilteredPolicy(Held(p), 0, <<procs[p].r, procs[p].t>>)
       IN  SetProc(p, [procs[p] EXCEPT !.todo = policies,
                          !.pc = IF policies = {} THEN procs[p].ret ELSE "e_clear_rm"])
    /\ UNCHANGED <<roles, assignments, enforcer, insts, issued, ops>>

\* clearRolePolicies: one removePolicy(...policy) of the loop
e_clearRemove(p) ==
    /\ procs[p].pc = "e_clear_rm"
    /\ \E policy \in procs[p].todo :
          /\ SetHeld(p, C_removePolicy(Held(p), policy))
          /\ SetProc(p, [procs[p] EXCEPT !.todo = @ \ {policy},
                            !.pc = IF procs[p].todo = {policy} THEN procs[p].ret
                                   ELSE "e_clear_rm"])
    /\ UNCHANGED <<roles, assignments, enforcer, issued, ops>>

\* addUserRole: enforcer.addGroupingPolicy(userId, roleId, tenantId)
e_addGrouping(p) ==
    /\ procs[p].pc = "e_addGrouping"
    /\ SetHeld(p, C_addGroupingPolicy(Held(p), <<procs[p].u, procs[p].r, procs[p].t>>))
    /\ SetProc(p, Back(p))
    /\ UNCHANGED <<roles, assignments, enforcer, issued, ops>>

\* removeUserRole: enforcer.removeGroupingPolicy(userId, roleId, tenantId)
e_removeGrouping(p) ==
    /\ procs[p].pc = "e_removeGrouping"
    /\ SetHeld(p, C_removeGroupingPolicy(Held(p), <<procs[p].u, procs[p].r, procs[p].t>>))
    /\ SetProc(p, Back(p))
    /\ UNCHANGED <<roles, assignments, enforcer, issued, ops>>

\* enforce: enforcer.enforce(userId, tenantId, capability)
e_enforce(p) ==
    /\ procs[p].pc = "e_enforce"
    /\ SetProc(p, [Back(p) EXCEPT !.res.allowed =
                      enforce(Held(p), procs[p].t, procs[p].u, procs[p].c)])
    /\ UNCHANGED <<roles, assignments, enforcer, insts, issued, ops>>

\* getGrantingRoles: the user's roles of the tenant, read from the groupings
e_grantingSnapshot(p) ==
    /\ procs[p].pc = "e_granting"
    /\ LET rs == tenantRoles(Held(p), procs[p].t, procs[p].u)
       IN  SetProc(p, [procs[p] EXCEPT !.list = rs, !.acc = <<>>,
                          !.pc = IF rs = <<>> THEN procs[p].ret ELSE "e_granting_chk"])
    /\ UNCHANGED <<roles, assignments, enforcer, insts, issued, ops>>

\* getGrantingRoles: one getFilteredPolicy(0, roleId, tenantId, capability)
e_grantingCheck(p) ==
    /\ procs[p].pc = "e_granting_chk"
    /\ LET roleId == Head(procs[p].list)
           hit == C_getFilteredPolicy(Held(p), 0, <<roleId, procs[p].t, procs[p].c>>) # {}
       IN  SetProc(p, [procs[p] EXCEPT
                          !.list = Tail(@),
                          !.acc = IF hit THEN Append(@, roleId) ELSE @,
                          !.pc = IF Len(procs[p].list) = 1 THEN procs[p].ret
                                 ELSE "e_granting_chk"])
    /\ UNCHANGED <<roles, assignments, enforcer, insts, issued, ops>>

(***************************************************************************)
(* CasbinEnforcer.syncPolicies, block by block                             *)
(***************************************************************************)
\* existingPolicies = getFilteredPolicy(1, tenantId)
e_syncSnapshot(p) ==
    /\ procs[p].pc = "e_sync"
    /\ SetProc(p, [procs[p] EXCEPT !.pc = "e_sync_rmP",
                      !.todo = C_getFilteredPolicy(Held(p), 1, <<procs[p].t>>)])
    /\ UNCHANGED <<roles, assignments, enforcer, insts, issued, ops>>

\* one removePolicy(...policy) of the first loop
e_syncRemovePolicy(p) ==
    /\ procs[p].pc = "e_sync_rmP"
    /\ \E policy \in procs[p].todo :
          /\ SetHeld(p, C_removePolicy(Held(p), policy))
          /\ SetProc(p, [procs[p] EXCEPT !.todo = @ \ {policy}])
    /\ UNCHANGED <<roles, assignments, enforcer, issued, ops>>

\* existingGroupings = getFilteredGroupingPolicy(2, tenantId)
e_syncGroupingSnapshot(p) ==
    /\ procs[p].pc = "e_sync_rmP"
    /\ procs[p].todo = {}
    /\ SetProc(p, [procs[p] EXCEPT !.pc = "e_sync_rmG",
                      !.list = C_getFilteredGroupingPolicy(Held(p), 2, <<procs[p].t>>)])
    /\ UNCHANGED <<roles, assignments, enforcer, insts, issued, ops>>

\* one removeGroupingPolicy(...grouping) of the second loop
e_syncRemoveGrouping(p) ==
    /\ procs[p].pc = "e_sync_rmG"
    /\ procs[p].list # <<>>
    /\ SetHeld(p, C_removeGroupingPolicy(Held(p), Head(procs[p].list)))
    /\ SetProc(p, [procs[p] EXCEPT !.list = Tail(@)])
    /\ UNCHANGED <<roles, assignments, enforcer, issued, ops>>

\* roles = roleStorage.listRoles(tenantId): the policies to add and allRoleIds
e_syncListRoles(p) ==
    /\ procs[p].pc = "e_sync_rmG"
    /\ procs[p].list = <<>>
    /\ LET listed == RS_listRoles(roles, procs[p].t)
           toAdd == UNION {{<<role.roleId, procs[p].t, capability>> :
                              capability \in role.capabilities} : role \in listed}
       IN  SetProc(p, [procs[p] EXCEPT !.todo = toAdd,
                          !.rest = {role.roleId : role \in listed},
                          !.pc = IF toAdd = {} THEN "e_sync_users" ELSE "e_sync_addP"])
    /\ UNCHANGED <<roles, assignments, enforcer, insts, issued, ops>>

\* one addPolicy(role.roleId, tenantId, capability) of the nested loops
e_syncAddPolicy(p) ==
    /\ procs[p].pc = "e_sync_addP"
    /\ \E policy \in procs[p].todo :
          /\ SetHeld(p, C_addPolicy(Held(p), policy))
          /\ SetProc(p, [procs[p] EXCEPT !.todo = @ \ {policy},
                            !.pc = IF procs[p].todo = {policy} THEN "e_sync_users"
                                   ELSE "e_sync_addP"])
    /\ UNCHANGED <<roles, assignments, enforcer, issued, ops>>

\* userIds = userRoleStorage.getRoleUsers(tenantId, roleId) for the next roleId
e_syncRoleUsers(p) ==
    /\ procs[p].pc = "e_sync_users"
    /\ procs[p].rest # {}
    /\ \E roleId \in procs[p].rest :
          LET links == {<<userId, roleId, procs[p].t>> :
                          userId \in URS_getRoleUsers(assignments, procs[p].t, roleId)}
          IN  SetProc(p, [procs[p] EXCEPT !.rest = @ \ {roleId}, !.todo = links,
                             !.pc = IF links = {} THEN "e_sync_users" ELSE "e_sync_addG"])
    /\ UNCHANGED <<roles, assignments, enforcer, insts, issued, ops>>

\* one addGroupingPolicy(userId, roleId, tenantId) of the inner loop
e_syncAddGrouping(p) ==
    /\ procs[p].pc = "e_sync_addG"
    /\ \E link \in procs[p].todo :
          /\ SetHeld(p, C_addGroupingPolicy(Held(p), link))
          /\ SetProc(p, [procs[p] EXCEPT !.todo = @ \ {link},
                            !.pc = IF procs[p].todo = {link} THEN "e_sync_users"
                                   ELSE "e_sync_addG"])
    /\ UNCHANGED <<roles, assignments, enforcer, issued, ops>>

\* syncPolicies returns
e_syncReturn(p) ==
    /\ procs[p].pc = "e_sync_users"
    /\ procs[p].rest = {}
    /\ SetProc(p, Back(p))
    /\ UNCHANGED <<roles, assignments, enforcer, insts, issued, ops>>

\* a call that ends with its last engine primitive returns
return(p) ==
    /\ procs[p].pc = "fin"
    /\ SetProc(p, Finish(procs[p], procs[p].res))
    /\ UNCHANGED <<roles, assignments, enforcer, insts, issued, ops>>

(***************************************************************************)
(* Direct calls of the CasbinEnforcer primitives                           *)
(***************************************************************************)
EngineCall(p, rec, prim) ==
    /\ CanStart(p)
    /\ SetProc(p, ensureInitialized(rec, prim, "fin"))
    /\ Started
    /\ UNCHANGED <<roles, assignments, enforcer, insts, issued>>

addRolePolicy(p, tenantId, roleId, capability) ==
    EngineCall(p, [Call("addRolePolicy", tenantId, "", roleId, capability)
                     EXCEPT !.cur = capability], "e_addPolicy")

removeRolePolicy(p, tenantId, roleId, capability) ==
    EngineCall(p, [Call("removeRolePolicy", tenantId, "", roleId, capability)
                     EXCEPT !.cur = capability], "e_removePolicy")

clearRolePolicies(p, tenantId, roleId) ==
    EngineCall(p, Call("clearRolePolicies", tenantId, "", roleId, ""), "e_clear")

addUserRole(p, tenantId, userId, roleId) ==
    EngineCall(p, Call("addUserRole", tenantId, userId, roleId, ""), "e_addGrouping")

removeUserRole(p, tenantId, userId, roleId) ==
    EngineCall(p, Call("removeUserRole", tenantId, userId, roleId, ""), "e_removeGrouping")

syncPolicies(p, tenantId) ==
    EngineCall(p, Call("syncPolicies", tenantId, "", "", ""), "e_sync")

callEnforce(p, tenantId, userId, capability) ==
    EngineCall(p, Call("enforce", tenantId, userId, "", capability), "e_enforce")

\* getGrantingRoles called on the engine, and its return
callGetGrantingRoles(p, tenantId, userId, capability) ==
    /\ CanStart(p)
    /\ SetProc(p, ensureInitialized(Call("getGrantingRoles", tenantId, userId, "", capability),
                                    "e_granting", "e_granting_ret"))
    /\ Started
    /\ UNCHANGED <<roles, assignments, enforcer, insts, issued>>

e_grantingReturn(p) ==
    /\ procs[p].pc = "e_granting_ret"
    /\ SetProc(p, Finish(procs[p], [procs[p].res EXCEPT !.grantingRoles = procs[p].acc]))
    /\ UNCHANGED <<roles, assignments, enforcer, insts, issued, ops>>

\* the blocks of the engine primitives the service uses
EngineStep(p) ==
    \/ e_addPolicy(p)
    \/ e_clearSnapshot(p) \/ e_clearRemove(p)
    \/ e_addGrouping(p) \/ e_removeGrouping(p)

SyncStep(p) ==
    \/ e_syncSnapshot(p) \/ e_syncRemovePolicy(p) \/ e_syncGroupingSnapshot(p)
    \/ e_syncRemoveGrouping(p) \/ e_syncListRoles(p) \/ e_syncAddPolicy(p)
    \/ e_syncRoleUsers(p) \/ e_syncAddGrouping(p) \/ e_syncReturn(p)

(***************************************************************************)
(* PermissionsService, block by block                                      *)
(***************************************************************************)
\* generateId: 16 random bytes; a value never returned before
generateId == GenIds \ issued

\* createRole up to its first await: validate, generateId, roleStorage.createRole
createRole(p, tenantId, name, capabilities) ==
    /\ CanStart(p)
    /\ \E roleId \in generateId :
          LET rec == [Call("createRole", tenantId, "", roleId, "") EXCEPT
                        !.hasName = TRUE, !.name = name,
                        !.hasCaps = TRUE, !.caps = capabilities, !.rest = capabilities]
              role == [tenantId |-> tenantId, roleId |-> roleId, name |-> name,
                       capabilities |-> capabilities]
          IN  /\ issued' = issued \cup {roleId}
              /\ IF RS_has(roles, tenantId, roleId)
                 THEN roles' = roles /\ SetProc(p, Throw(rec))
                 ELSE /\ roles' = RS_createRole(roles, role)
                      /\ SetProc(p, [rec EXCEPT !.pc = "add_loop"])
    /\ Started
    /\ UNCHANGED <<assignments, enforcer, insts>>

\* the loop of createRole and updateRole: the next addRolePolicy, or return
svc_addLoop(p) ==
    /\ procs[p].pc = "add_loop"
    /\ IF procs[p].rest = {}
       THEN SetProc(p, Finish(procs[p], procs[p].res))
       ELSE \E capability \in procs[p].rest :
               SetProc(p, ensureInitialized(
                   [procs[p] EXCEPT !.rest = @ \ {capability}, !.cur = capability],
                   "e_addPolicy", "add_loop"))
    /\ UNCHANGED <<roles, assignments, enforcer, insts, issued, ops>>

\* updateRole up to its first await: validate, roleStorage.getRole
updateRole(p, tenantId, roleId, hasName, name, hasCaps, capabilities) ==
    /\ CanStart(p)
    /\ SetProc(p, [Call("updateRole", tenantId, "", roleId, "") EXCEPT
                      !.pc = "up_store", !.hasName = hasName, !.name = name,
                      !.hasCaps = hasCaps, !.caps = capabilities, !.rest = capabilities,
                      !.found = RS_has(roles, tenantId, roleId)])
    /\ Started
    /\ UNCHANGED <<roles, assignments, enforcer, insts, issued>>

\* updateRole: throw when getRole gave null, else roleStorage.updateRole
\* (which throws when the role is gone)
svc_updateStore(p) ==
    /\ procs[p].pc = "up_store"
    /\ IF procs[p].found /\ RS_has(roles, procs[p].t, procs[p].r)
       THEN /\ roles' = RS_updateRole(roles, procs[p].t, procs[p].r, procs[p].hasName,
                                      procs[p].name, procs[p].hasCaps, procs[p].caps)
            /\ SetProc(p, [procs[p] EXCEPT !.pc = "up_policies"])
       ELSE /\ roles' = roles
            /\ SetProc(p, Throw(procs[p]))
    /\ UNCHANGED <<assignments, enforcer, insts, issued, ops>>

\* updateRole that adds the new capabilities without clearing the old grants
svc_updatePolicies_noClear(p) ==
    /\ procs[p].pc = "up_policies"
    /\ IF procs[p].hasCaps
       THEN SetProc(p, [procs[p] EXCEPT !.pc = "add_loop"])
       ELSE SetProc(p, Finish(procs[p], procs[p].res))
    /\ UNCHANGED <<roles, assignments, enforcer, insts, issued, ops>>

\* updateRole: if (validated.capabilities) clearRolePolicies, else return
svc_updatePolicies(p) ==
    /\ procs[p].pc = "up_policies"
    /\ IF procs[p].hasCaps
       THEN SetProc(p, ensureInitialized(procs[p], "e_clear", "add_loop"))
       ELSE SetProc(p, Finish(procs[p], procs[p].res))
    /\ UNCHANGED <<roles, assignments, enforcer, insts, issued, ops>>

\* deleteRole up to its first await: validate, clearRolePolicies
deleteRole(p, tenantId, roleId) ==
    /\ CanStart(p)
    /\ SetProc(p, ensureInitialized(Call("deleteRole", tenantId, "", roleId, ""),
                                    "e_clear", "del_store"))
    /\ Started
    /\ UNCHANGED <<roles, assignments, enforcer, insts, issued>>

\* deleteRole: roleStorage.deleteRole, return
svc_deleteStore(p) ==
    /\ procs[p].pc = "del_store"
    /\ roles' = RS_deleteRole(roles, procs[p].t, procs[p].r)
    /\ SetProc(p, Finish(procs[p], procs[p].res))
    /\ UNCHANGED <<assignments, enforcer, insts, issued, ops>>

\* assignRole up to its first await: validate, roleStorage.getRole
assignRole(p, tenantId, userId, roleId) ==
    /\ CanStart(p)
    /\ SetProc(p, [Call("assignRole", tenantId, userId, roleId, "") EXCEPT
                      !.pc = "as_store", !.found = RS_has(roles, tenantId, roleId)])
    /\ Started
    /\ UNCHANGED <<roles, assignments, enforcer, insts, issued>>

\* assignRole: throw when getRole gave null, else userRoleStorage.assignRole
svc_assignStore(p) ==
    /\ procs[p].pc = "as_store"
    /\ IF procs[p].found
       THEN /\ assignments' = URS_assignRole(assignments,
                                  Assignment(procs[p].t, procs[p].u, procs[p].r))
            /\ SetProc(p, [procs[p] EXCEPT !.pc = "as_link"])
       ELSE /\ assignments' = assignments
            /\ SetProc(p, Throw(procs[p]))
    /\ UNCHANGED <<roles, enforcer, insts, issued, ops>>

\* assignRole: enforcer.addUserRole
svc_assignLink(p) ==
    /\ procs[p].pc = "as_link"
    /\ SetProc(p, ensureInitialized(procs[p], "e_addGrouping", "fin"))
    /\ UNCHANGED <<roles, assignments, enforcer, insts, issued, ops>>

\* removeRole up to its first await: validate, userRoleStorage.removeRole
removeRole(p, tenantId, userId, roleId) ==
    /\ CanStart(p)
    /\ assignments' = URS_removeRole(assignments, tenantId, userId, roleId)
    /\ SetProc(p, [Call("removeRole", tenantId, userId, roleId, "") EXCEPT !.pc = "rm_link"])
    /\ Started
    /\ UNCHANGED <<roles, enforcer, insts, issued>>

\* removeRole: enforcer.removeUserRole
svc_removeLink(p) ==
    /\ procs[p].pc = "rm_link"
    /\ SetProc(p, ensureInitialized(procs[p], "e_removeGrouping", "fin"))
    /\ UNCHANGED <<roles, assignments, enforcer, insts, issued, ops>>

\* Array.prototype.join
RECURSIVE join(_, _)
join(seq, sep) ==
    IF seq = <<>> THEN ""
    ELSE IF Len(seq) = 1 THEN seq[1]
    ELSE seq[1] \o sep \o join(Tail(seq), sep)

\* a copy that keeps repeated elements
unique_keep(seq) == seq

\* [...new Set(seq)]: the first occurrence of every element, in order
RECURSIVE unique(_)
unique(seq) ==
    IF seq = <<>> THEN <<>>
    ELSE LET init == unique(SubSeq(seq, 1, Len(seq) - 1))
             last == seq[Len(seq)]
         IN  IF last \in Range(init) THEN init ELSE Append(init, last)

\* `role:${role.name} (${role.roleId})`
grantedByEntry(role) == "role:" \o role.name \o " (" \o role.roleId \o ")"

\* checkPermission returns: to the caller, or into the loop of
\* checkPermissions / checkAnyPermission that awaits it
Return(rec, res) ==
    IF rec.op = "checkPermission" THEN Finish(rec, res)
    ELSE [rec EXCEPT !.pc = "cp_back", !.res = res]

\* checkPermission up to its first await: validate, enforcer.enforce
checkPermission(p, tenantId, userId, capability) ==
    /\ CanStart(p)
    /\ SetProc(p, ensureInitialized(Call("checkPermission", tenantId, userId, "", capability),
                                    "e_enforce", "cp_allowed"))
    /\ Started
    /\ UNCHANGED <<roles, assignments, enforcer, insts, issued>>

\* checkPermission: if (allowed) getGrantingRoles, else the denial
svc_checkAllowed(p) ==
    /\ procs[p].pc = "cp_allowed"
    /\ IF procs[p].res.allowed
       THEN SetProc(p, ensureInitialized(procs[p], "e_granting", "cp_names"))
       ELSE SetProc(p, Return(procs[p],
                       [procs[p].res EXCEPT !.reason =
                           "User does not have capability: " \o procs[p].c]))
    /\ UNCHANGED <<roles, assignments, enforcer, insts, issued, ops>>

\* checkPermission: one roleStorage.getRole of the audit loop, or the result
svc_checkNames(p) ==
    /\ procs[p].pc = "cp_names"
    /\ IF procs[p].acc = <<>>
       THEN SetProc(p, Return(procs[p],
                       [procs[p].res EXCEPT !.reason =
                           "Access granted by " \o ToString(Len(procs[p].res.grantedBy))
                               \o " role(s)"]))
       ELSE LET role == RS_getRole(roles, procs[p].t, Head(procs[p].acc))
            IN  SetProc(p, [procs[p] EXCEPT !.acc = Tail(@),
                               !.res.grantedBy = IF role = NoRole THEN @
                                                 ELSE Append(@, grantedByEntry(role))])
    /\ UNCHANGED <<roles, assignments, enforcer, insts, issued, ops>>

\* the call this.checkPermission({tenantId, userId, capability}) of a loop, up
\* to its first await; its validate throws through the loop that awaits it
callCheck(rec, capability) ==
    LET call == [rec EXCEPT !.c = capability, !.res = NoRes, !.acc = <<>>,
                            !.clist = Tail(@), !.asked = Append(@, capability)]
    IN  IF PermissionCheckInputSchema(rec.t, rec.u, capability)
        THEN ensureInitialized(call, "e_enforce", "cp_allowed")
        ELSE Throw(call)

\* the result of checkPermissions once the loop is over
allResult(rec, allGrantedBy, missing) ==
    IF Len(missing) = 0
    THEN [NoRes EXCEPT !.allowed = TRUE, !.grantedBy = unique(allGrantedBy),
                       !.reason = "All " \o ToString(Len(rec.capabilities))
                                     \o " capabilities granted"]
    ELSE [NoRes EXCEPT !.reason = "User is missing capabilities: " \o join(missing, ", ")]

\* the result of checkAnyPermission once the loop is over
anyResult(rec) ==
    [NoRes EXCEPT !.reason = "User does not have any of the required capabilities: "
                                \o join(rec.capabilities, ", ")]

\* checkPermissions up to its first await (or its return, for an empty list)
checkPermissions(p, tenantId, userId, capabilities) ==
    /\ CanStart(p)
    /\ LET rec == [Call("checkPermissions", tenantId, userId, "", "") EXCEPT
                      !.capabilities = capabilities, !.clist = capabilities]
       IN  IF capabilities = <<>>
           THEN SetProc(p, Finish(rec, allResult(rec, <<>>, <<>>)))
           ELSE SetProc(p, callCheck(rec, Head(capabilities)))
    /\ Started
    /\ UNCHANGED <<roles, assignments, enforcer, insts, issued>>

\* checkPermissions: one result arrives; the next call, or the result
svc_checkAll(p) ==
    /\ procs[p].pc = "cp_back" /\ procs[p].op = "checkPermissions"
    /\ LET result == procs[p].res
           allGrantedBy == IF result.allowed THEN procs[p].allGrantedBy \o result.grantedBy
                           ELSE procs[p].allGrantedBy
           missing == IF result.allowed THEN procs[p].missing
                      ELSE Append(procs[p].missing, procs[p].c)
           rec == [procs[p] EXCEPT !.allGrantedBy = allGrantedBy, !.missing = missing]
       IN  IF procs[p].clist = <<>>
           THEN SetProc(p, Finish(rec, allResult(rec, allGrantedBy, missing)))
           ELSE SetProc(p, callCheck(rec, Head(procs[p].clist)))
    /\ UNCHANGED <<roles, assignments, enforcer, insts, issued, ops>>

\* checkAnyPermission up to its first await (or its return, for an empty list)
checkAnyPermission(p, tenantId, userId, capabilities) ==
    /\ CanStart(p)
    /\ LET rec == [Call("checkAnyPermission", tenantId, userId, "", "") EXCEPT
                      !.capabilities = capabilities, !.clist = capabilities]
       IN  IF capabilities = <<>>
           THEN SetProc(p, Finish(rec, anyResult(rec)))
           ELSE SetProc(p, callCheck(rec, Head(capabilities)))
    /\ Started
    /\ UNCHANGED <<roles, assignments, enforcer, insts, issued>>

\* checkAnyPermission that asks about every capability before it returns
svc_checkAny_all(p) ==
    /\ procs[p].pc = "cp_back" /\ procs[p].op = "checkAnyPermission"
    /\ LET result == procs[p].res
       IN  IF procs[p].clist # <<>>
           THEN SetProc(p, callCheck(procs[p], Head(procs[p].clist)))
           ELSE IF result.allowed
           THEN SetProc(p, Finish(procs[p],
                           [NoRes EXCEPT !.allowed = TRUE, !.grantedBy = result.grantedBy,
                                         !.reason = "Capability " \o procs[p].c \o " granted"]))
           ELSE SetProc(p, Finish(procs[p], anyResult(procs[p])))
    /\ UNCHANGED <<roles, assignments, enforcer, insts, issued, ops>>

\* checkAnyPermission: one result arrives; the return on the first allowed
\* one, the next call, or the denial
svc_checkAny(p) ==
    /\ procs[p].pc = "cp_back" /\ procs[p].op = "checkAnyPermission"
    /\ LET result == procs[p].res
       IN  IF result.allowed
           THEN SetProc(p, Finish(procs[p],
                           [NoRes EXCEPT !.allowed = TRUE, !.grantedBy = result.grantedBy,
                                         !.reason = "Capability " \o procs[p].c \o " granted"]))
           ELSE IF procs[p].clist = <<>>
           THEN SetProc(p, Finish(procs[p], anyResult(procs[p])))
           ELSE SetProc(p, callCheck(procs[p], Head(procs[p].clist)))
    /\ UNCHANGED <<roles, assignments, enforcer, insts, issued, ops>>

\* service getUserRoles up to its first await: userRoleStorage.getUserRoles
ServiceRead(p, op, tenantId, userId) ==
    /\ CanStart(p)
    /\ SetProc(p, [Call(op, tenantId, userId, "", "") EXCEPT !.pc = "gr_loop",
                      !.todo = URS_getUserRoles(assignments, tenantId, userId)])
    /\ Started
    /\ UNCHANGED <<roles, assignments, enforcer, insts, issued>>

svcGetUserRoles(p, tenantId, userId) == ServiceRead(p, "getUserRoles", tenantId, userId)
svcGetUserCapabilities(p, tenantId, userId) ==
    ServiceRead(p, "getUserCapabilities", tenantId, userId)
buildPolicyContext(p, tenantId, userId) ==
    ServiceRead(p, "buildPolicyContext", tenantId, userId)

\* the capabilities of a list of roles, as getUserCapabilities collects them
capabilitiesOf(rs) == UNION {role.capabilities : role \in rs}

\* getUserRoles: one roleStorage.getRole of the loop
svc_rolesLoop(p) ==
    /\ procs[p].pc \in {"gr_loop", "gr_loop2"}
    /\ procs[p].todo # {}
    /\ \E roleId \in procs[p].todo :
          LET role == RS_getRole(roles, procs[p].t, roleId)
          IN  SetProc(p, [procs[p] EXCEPT !.todo = @ \ {roleId},
                             !.racc = IF role = NoRole THEN @ ELSE @ \cup {role}])
    /\ UNCHANGED <<roles, assignments, enforcer, insts, issued, ops>>

\* getUserRoles returns: to the caller (getUserRoles), into getUserCapabilities,
\* or into buildPolicyContext, which keeps roles and calls getUserCapabilities,
\* which starts with userRoleStorage.getUserRoles again
svc_rolesDone(p) ==
    /\ procs[p].pc = "gr_loop"
    /\ procs[p].todo = {}
    /\ LET ids == {role.roleId : role \in procs[p].racc}
       IN  CASE procs[p].op = "getUserRoles" ->
                  SetProc(p, Finish(procs[p], [procs[p].res EXCEPT !.roleIds = ids]))
             [] procs[p].op = "getUserCapabilities" ->
                  SetProc(p, Finish(procs[p],
                             [procs[p].res EXCEPT !.caps = capabilitiesOf(procs[p].racc)]))
             [] OTHER ->
                  SetProc(p, [procs[p] EXCEPT !.pc = "gr_loop2", !.racc = {},
                                 !.res.roleIds = ids,
                                 !.todo = URS_getUserRoles(assignments, procs[p].t,
                                                           procs[p].u)])
    /\ UNCHANGED <<roles, assignments, enforcer, insts, issued, ops>>

\* buildPolicyContext: getUserCapabilities returns, the context is built
svc_contextDone(p) ==
    /\ procs[p].pc = "gr_loop2"
    /\ procs[p].todo = {}
    /\ SetProc(p, Finish(procs[p],
                  [procs[p].res EXCEPT !.caps = capabilitiesOf(procs[p].racc)]))
    /\ UNCHANGED <<roles, assignments, enforcer, insts, issued, ops>>

ServiceStep(p) ==
    \/ svc_addLoop(p) \/ svc_updateStore(p) \/ svc_updatePolicies(p)
    \/ svc_deleteStore(p) \/ svc_assignStore(p) \/ svc_assignLink(p)
    \/ svc_removeLink(p)

CheckStep(p) ==
    \/ e_enforce(p) \/ e_grantingSnapshot(p) \/ e_grantingCheck(p)
    \/ svc_checkAllowed(p) \/ svc_checkNames(p)

ReadStep(p) == svc_rolesLoop(p) \/ svc_rolesDone(p) \/ svc_contextDone(p)

AggregateStep(p) == svc_checkAll(p) \/ svc_checkAny(p)

(***************************************************************************)
(* Pure readings of the service's store-based queries (no interleaving)    *)
(***************************************************************************)
\* PermissionsService.getUserRoles: the roles getRole finds for the stored ids
svcUserRoles(rs, as, tenantId, userId) ==
    {RS_getRole(rs, tenantId, roleId) : roleId \in URS_getUserRoles(as, tenantId, userId)}
        \ {NoRole}

\* PermissionsService.getUserCapabilities
svcUserCapabilities(rs, as, tenantId, userId) ==
    capabilitiesOf(svcUserRoles(rs, as, tenantId, userId))

(***************************************************************************)
(* Calls over input sets                                                   *)
(***************************************************************************)
EngineStart(p, T, U, R, C) ==
    \/ \E tenantId \in T, roleId \in R, capability \in C :
          addRolePolicy(p, tenantId, roleId, capability)
    \/ \E tenantId \in T, roleId \in R, capability \in C :
          removeRolePolicy(p, tenantId, roleId, capability)
    \/ \E tenantId \in T, roleId \in R : clearRolePolicies(p, tenantId, roleId)
    \/ \E tenantId \in T, userId \in U, roleId \in R : addUserRole(p, tenantId, userId, roleId)
    \/ \E tenantId \in T, userId \in U, roleId \in R :
          removeUserRole(p, tenantId, userId, roleId)

\* the ids a caller can pass: generateId's values only once createRole has
\* returned them, any other string at any time
InFlight(q) == q.pc \notin {"idle", "done"}

Creating == {procs[p].r : p \in {x \in DOMAIN procs :
                procs[x].op = "createRole" /\ InFlight(procs[x])}}

Usable(S) == S \ (GenIds \ (issued \ Creating))

ServiceStart(p, T, U, R, CS) ==
    \/ \E tenantId \in T, capabilities \in CS : createRole(p, tenantId, "n", capabilities)
    \/ \E tenantId \in T, roleId \in Usable(R), capabilities \in CS :
          updateRole(p, tenantId, roleId, FALSE, "", TRUE, capabilities)
    \/ \E tenantId \in T, roleId \in Usable(R) :
          updateRole(p, tenantId, roleId, TRUE, "n2", FALSE, {})
    \/ \E tenantId \in T, roleId \in Usable(R) : deleteRole(p, tenantId, roleId)
    \/ \E tenantId \in T, userId \in Usable(U), roleId \in Usable(R) :
          assignRole(p, tenantId, userId, roleId)
    \/ \E tenantId \in T, userId \in Usable(U), roleId \in Usable(R) :
          removeRole(p, tenantId, userId, roleId)

ReaderStart(p, T, U, C) ==
    \/ \E tenantId \in T, userId \in Usable(U), capability \in C :
          checkPermission(p, tenantId, userId, capability)
    \/ \E tenantId \in T, userId \in Usable(U) : svcGetUserRoles(p, tenantId, userId)
    \/ \E tenantId \in T, userId \in Usable(U) : svcGetUserCapabilities(p, tenantId, userId)
    \/ \E tenantId \in T, userId \in Usable(U) : buildPolicyContext(p, tenantId, userId)

Fresh(callers, budget) ==
    /\ roles = EmptyMap
    /\ assignments = EmptyMap
    /\ enforcer = 0
    /\ insts = <<>>
    /\ issued = {}
    /\ procs = [p \in callers |-> IdleProc]
    /\ ops = budget

Quiescent == \A p \in DOMAIN procs : procs[p].pc \in {"idle", "done"}

(***************************************************************************)
(* SpecEngine: one caller uses a fresh CasbinEnforcer directly, one call   *)
(* after the other; the stores stay empty.                                 *)
(***************************************************************************)
MaxEngineOps == 3

InitEngine == Fresh({1}, MaxEngineOps)

NextEngine ==
    \/ EngineStart(1, Tenants, Users, GenIds, Caps)
    \/ initialize(1) \/ ensureReturn(1)
    \/ EngineStep(1) \/ e_removePolicy(1) \/ return(1)

SpecEngine == InitEngine /\ [][NextEngine]_vars

(***************************************************************************)
(* SpecService: one caller uses a fresh PermissionsService, one call after *)
(* the other, over the whole input universe.                               *)
(***************************************************************************)
MaxServiceOps == 3

InitService == Fresh({1}, MaxServiceOps)

NextService ==
    \/ ServiceStart(1, Tenants, Users, RoleIds, SUBSET Caps)
    \/ initialize(1) \/ ensureReturn(1)
    \/ EngineStep(1) \/ ServiceStep(1) \/ return(1)

SpecService == InitService /\ [][NextService]_vars

(***************************************************************************)
(* SpecSmall: as SpecService, longer runs over one tenant, one capability  *)
(* and the role ids generateId returns.                                    *)
(***************************************************************************)
MaxSmallOps == 5

InitSmall == Fresh({1}, MaxSmallOps)

NextSmall ==
    \/ ServiceStart(1, {"a"}, Users, GenIds, {{"m:x"}})
    \/ initialize(1) \/ ensureReturn(1)
    \/ EngineStep(1) \/ ServiceStep(1) \/ return(1)

SpecSmall == InitSmall /\ [][NextSmall]_vars

(***************************************************************************)
(* Claims                                                                  *)
(***************************************************************************)
\* the roles r with the membership edge (t,u,r) and the grant edge (t,r,c)
DirectGranting(e, t, u, c) ==
    {x[2] : x \in {y \in Range(e.g) : y[1] = u /\ y[3] = t /\ <<y[2], t, c>> \in e.p}}

Subjects == Users \cup RoleIds

\* C1: in every index state and for every tenant, user and capability (a user
\* id that is also a role id included), enforce is true exactly when some
\* role has both the membership edge and the grant edge.
C1_EnforceIffDirectEdges ==
    \A t \in Tenants, u \in Subjects, c \in Caps :
        enforce(Cur, t, u, c) <=> DirectGranting(Cur, t, u, c) # {}

\* C8: when enforce(t,u,c) is true and r is the only role granting c to u,
\* enforce(t,u,c) is false after removeRolePolicy(t,r,c), clearRolePolicies(t,r)
\* or removeUserRole(t,u,r) (service: removeRole(t,u,r), deleteRole(t,r)).
C8_Applies(q, u, c) ==
    /\ q.pc = "done" /\ q.res.ok
    /\ \/ q.op \in {"removeRolePolicy"} /\ c = q.c
       \/ q.op \in {"clearRolePolicies", "deleteRole"}
       \/ q.op \in {"removeUserRole", "removeRole"} /\ u = q.u
    /\ enforce(q.pre.idx, q.t, u, c)
    /\ DirectGranting(q.pre.idx, q.t, u, c) = {q.r}

C8_RemovalDenies ==
    \A p \in DOMAIN procs, u \in Subjects, c \in Caps :
        C8_Applies(procs[p], u, c) => ~enforce(Cur, procs[p].t, u, c)

\* C5: in every state with no service operation in flight, the index holds
\* no membership edge (t,u,r) and no grant edge (t,r,c) whose role (t,r) is
\* absent from the role store; in particular after deleteRole(t,r) of a role
\* that is still assigned to users.
C5_NoEdgeOfAbsentRole ==
    Quiescent =>
        /\ \A x \in Range(Cur.g) : RS_has(roles, x[3], x[2])
        /\ \A y \in Cur.p : RS_has(roles, y[2], y[1])

\* C6: after assignRole(t,u,r) followed by deleteRole(t,r), the service's
\* getUserRoles(t,u) does not contain r, getUserCapabilities(t,u) contains no
\* capability only r contributed, and checkPermission(t,u,c) is denied for
\* every capability c that only r granted.
C6_OnlyFrom(q, u, c) ==
    /\ URS_getKey(q.t, u, q.r) \in DOMAIN q.pre.assignments
    /\ \E role \in svcUserRoles(q.pre.roles, q.pre.assignments, q.t, u) :
          role.roleId = q.r /\ c \in role.capabilities
    /\ \A role \in svcUserRoles(q.pre.roles, q.pre.assignments, q.t, u) :
          role.roleId # q.r => c \notin role.capabilities

C6_Deleted(q) == q.pc = "done" /\ q.op = "deleteRole" /\ q.res.ok

C6_DeletedRoleExcluded ==
    \A p \in DOMAIN procs, u \in Users, c \in Caps :
        C6_Deleted(procs[p]) /\ C6_OnlyFrom(procs[p], u, c) =>
            /\ procs[p].r \notin
                  {role.roleId : role \in svcUserRoles(roles, assignments, procs[p].t, u)}
            /\ c \notin svcUserCapabilities(roles, assignments, procs[p].t, u)
            /\ ~enforce(Cur, procs[p].t, u, c)

(***************************************************************************)
(* SpecInit: two callers share a fresh CasbinEnforcer and use it directly; *)
(* their calls interleave at the awaits.                                   *)
(***************************************************************************)
MaxInitOps == 3

InitInit == Fresh({1, 2}, MaxInitOps)

NextInit ==
    \E p \in {1, 2} :
        \/ EngineStart(p, {"a"}, {"u"}, {"s"}, {"m:x"})
        \/ callEnforce(p, "a", "u", "m:x")
        \/ initialize(p) \/ ensureReturn(p)
        \/ EngineStep(p) \/ e_removePolicy(p) \/ e_enforce(p) \/ return(p)

SpecInit == InitInit /\ [][NextInit]_vars

\* C7: enforce(t,u,c) goes from true to false only in a step that removes a
\* grant edge (t,r,c) or a membership edge (t,u,r) from the index; calling
\* enforce or the lookups, or initialising the engine, never changes it.
C7_EdgeRemoved(t, u, c) ==
    \E r \in Subjects, k \in DOMAIN insts :
        \/ <<r, t, c>> \in insts[k].p /\ <<r, t, c>> \notin insts'[k].p
        \/ <<u, r, t>> \in Range(insts[k].g) /\ <<u, r, t>> \notin Range(insts'[k].g)

C7_EnforceMonotonic ==
    [][\A t \in Tenants, u \in Users, c \in Caps :
          enforce(Cur, t, u, c) /\ ~enforce(Cur, t, u, c)' => C7_EdgeRemoved(t, u, c)]_vars

(***************************************************************************)
(* SpecConc: two callers share a PermissionsService in which               *)
(* createRole("a", ["m:x"]) has returned role "r" and                      *)
(* assignRole("a", "u", "r") has completed; their calls, mutations and     *)
(* reads, interleave at the awaits.                                        *)
(***************************************************************************)
MaxConcOps == 2

InitConc ==
    /\ roles = RoleMap({Role("a", "r", {"m:x"})})
    /\ assignments = AssignmentMap({Assignment("a", "u", "r")})
    /\ enforcer = 1
    /\ insts = <<[p |-> {<<"r", "a", "m:x">>}, g |-> <<<<"u", "r", "a">>>>]>>
    /\ issued = {"r"}
    /\ procs = [p \in {1, 2} |-> IdleProc]
    /\ ops = MaxConcOps

NextConc ==
    \E p \in {1, 2} :
        \/ ServiceStart(p, {"a"}, {"u"}, GenIds, {{"m:x"}, {"m:y"}})
        \/ ReaderStart(p, {"a"}, {"u"}, Caps)
        \/ EngineStep(p) \/ ServiceStep(p) \/ CheckStep(p) \/ ReadStep(p) \/ return(p)

SpecConc == InitConc /\ [][NextConc]_vars

\* C3: a reader that runs concurrently with updateRole(t, r, {capabilities:
\* New}) sees the whole old or the whole new grant set of r; in particular a
\* capability of both sets, checked for a member of r while the update is in
\* flight, is never denied.
C3_Replacing(q, u, c) ==
    /\ InFlight(q) /\ q.op = "updateRole" /\ q.hasCaps
    /\ c \in q.caps
    /\ <<q.r, q.t, c>> \in q.pre.idx.p
    /\ <<u, q.r, q.t>> \in Range(q.pre.idx.g)

C3_UpdateAtomicForReaders ==
    [][\A p \in DOMAIN procs, q \in DOMAIN procs :
          /\ C3_Replacing(procs[p], procs[q].u, procs[q].c)
          /\ procs[q].op = "checkPermission" /\ procs[q].t = procs[p].t
          /\ procs[q].pc = "e_enforce" /\ procs'[q].pc = "cp_allowed"
          => procs'[q].res.allowed]_vars

\* C4: whenever no service operation is in flight, after any interleaving of
\* concurrent service calls, the index is the image of the stores: the grants
\* of (t,r) are the capabilities of role (t,r), the membership edges of t are
\* the assignment edges of t.
C4_StoreCaps(t, r) ==
    UNION {role.capabilities :
              role \in {x \in Values(roles) : x.tenantId = t /\ x.roleId = r}}

C4_IndexIsImage ==
    Quiescent =>
        /\ \A t \in Tenants, r \in RoleIds :
              {c \in Caps : <<r, t, c>> \in Cur.p} = C4_StoreCaps(t, r)
        /\ \A t \in Tenants :
              {<<x[1], x[2]>> : x \in {y \in Range(Cur.g) : y[3] = t}}
                = {<<a.userId, a.roleId>> : a \in {y \in Values(assignments) : y.tenantId = t}}

\* C9: the roles and the capabilities buildPolicyContext(t,u) returns belong
\* to one state that existed during the call: the capabilities are the union
\* of the capability sets of the returned roles in that state.  (What the
\* stores held during the call is among: their content when the call
\* started, when another caller's running call started, and when the call
\* returns.)
C9_Ideal(rs, as, t, u) ==
    [roleIds |-> {role.roleId : role \in svcUserRoles(rs, as, t, u)},
     caps |-> svcUserCapabilities(rs, as, t, u)]

C9_During(q) ==
    {C9_Ideal(q.pre.roles, q.pre.assignments, q.t, q.u),
     C9_Ideal(roles', assignments', q.t, q.u)}
      \cup {C9_Ideal(procs[p].pre.roles, procs[p].pre.assignments, q.t, q.u) :
               p \in {x \in DOMAIN procs : InFlight(procs[x])}}

C9_ContextIsOneRead ==
    [][\A q \in DOMAIN procs :
          /\ procs[q].op = "buildPolicyContext"
          /\ InFlight(procs[q]) /\ procs'[q].pc = "done"
          => [roleIds |-> procs'[q].res.roleIds, caps |-> procs'[q].res.caps]
                \in C9_During(procs[q])]_vars

(***************************************************************************)
(* SpecTenant: the stores are filled through the storage classes with      *)
(* chosen ids (as the syncPolicies test does) before one caller uses the   *)
(* engine primitives, syncPolicies and the service, one call after the     *)
(* other.  Role "s" and user "u" occur in both tenants.                    *)
(***************************************************************************)
MaxTenantOps == 3

StoreConfigs ==
    {[roles |-> {}, assignments |-> {}],
     [roles |-> {Role("a", "s", {"m:x"}), Role("a:b", "s", {"m:x"})},
      assignments |-> {Assignment("a", "u", "s"), Assignment("a:b", "u", "s")}],
     [roles |-> {Role("a", "s", {"m:x"})},
      assignments |-> {Assignment("a:b", "u", "s")}]}

InitTenant ==
    \E cfg \in StoreConfigs :
        /\ roles = RoleMap(cfg.roles)
        /\ assignments = AssignmentMap(cfg.assignments)
        /\ enforcer = 0
        /\ insts = <<>>
        /\ issued = {"s"}
        /\ procs = [p \in {1} |-> IdleProc]
        /\ ops = MaxTenantOps

NextTenant ==
    \/ EngineStart(1, Tenants, {"u"}, {"s"}, {"m:x"})
    \/ \E tenantId \in Tenants : syncPolicies(1, tenantId)
    \/ ServiceStart(1, Tenants, {"u"}, GenIds, {{"m:x"}})
    \/ initialize(1) \/ ensureReturn(1)
    \/ EngineStep(1) \/ e_removePolicy(1) \/ SyncStep(1) \/ ServiceStep(1) \/ return(1)

SpecTenant == InitTenant /\ [][NextTenant]_vars

\* what the engine answers for one tenant
TenantView(e, t) ==
    [enforce |-> {x \in Subjects \X Caps : enforce(e, t, x[1], x[2])},
     getUserRoles |-> [u \in Subjects |-> getUserRoles(e, t, u)],
     getUserCapabilities |-> [u \in Subjects |-> getUserCapabilities(e, t, u)],
     getGrantingRoles |-> [x \in Subjects \X Caps |-> getGrantingRoles(e, t, x[1], x[2])]]

\* C2: no step of a mutating operation addressed to tenant T1 (engine
\* primitive, syncPolicies or service mutator) changes the result of enforce,
\* getUserRoles, getUserCapabilities or getGrantingRoles of a tenant T2 # T1,
\* for any user and capability, also when both tenants use the same ids.
C2_TenantIsolation ==
    [][\A p \in DOMAIN procs :
          procs'[p] # procs[p] =>
              \A t2 \in Tenants \ {procs'[p].t} :
                  TenantView(Cur, t2)' = TenantView(Cur, t2)]_vars

\* a call has taken capability c from user u in its tenant while another
\* tenant grants the same c to the same u
C2_Witness ==
    \E p \in DOMAIN procs, t2 \in Tenants, u \in Users, c \in Caps :
        /\ procs[p].pc = "done" /\ t2 # procs[p].t
        /\ enforce(procs[p].pre.idx, procs[p].t, u, c)
        /\ ~enforce(Cur, procs[p].t, u, c)
        /\ enforce(Cur, t2, u, c)
        /\ getGrantingRoles(Cur, t2, u, c) # <<>>

\* C10: after syncPolicies(t) has run alone to completion, for all u and c
\* enforce(t,u,c) is true exactly when the role store holds a role r of
\* tenant t with c among its capabilities and the assignment store holds the
\* edge (t,u,r); the index entries of every other tenant are as before.
C10_Justified(t, u, c) ==
    \E role \in Values(roles), a \in Values(assignments) :
        /\ role.tenantId = t /\ c \in role.capabilities
        /\ a.tenantId = t /\ a.userId = u /\ a.roleId = role.roleId

C10_Entries(e, t) ==
    [p |-> {x \in e.p : x[2] = t}, g |-> SelectSeq(e.g, LAMBDA x : x[3] = t)]

C10_ResyncMatchesStores ==
    \A p \in DOMAIN procs :
        procs[p].pc = "done" /\ procs[p].op = "syncPolicies" =>
            /\ \A u \in Users, c \in Caps :
                  enforce(Cur, procs[p].t, u, c) <=> C10_Justified(procs[p].t, u, c)
            /\ \A t2 \in Tenants \ {procs[p].t} :
                  C10_Entries(Cur, t2) = C10_Entries(procs[p].pre.idx, t2)

(***************************************************************************)
(* SpecResync: role ("a","s") with capability "m:x" and the assignment     *)
(* ("a","u","s") are in the stores and syncPolicies("a") has completed;    *)
(* two callers then use the CasbinEnforcer directly, syncPolicies and      *)
(* enforce, their calls interleaving at the awaits.                        *)
(***************************************************************************)
MaxResyncOps == 3

InitResync ==
    /\ roles = RoleMap({Role("a", "s", {"m:x"})})
    /\ assignments = AssignmentMap({Assignment("a", "u", "s")})
    /\ enforcer = 1
    /\ insts = <<[p |-> {<<"s", "a", "m:x">>}, g |-> <<<<"u", "s", "a">>>>]>>
    /\ issued = {"s"}
    /\ procs = [p \in {1, 2} |-> IdleProc]
    /\ ops = MaxResyncOps

NextResync ==
    \E p \in {1, 2} :
        \/ \E tenantId \in Tenants : syncPolicies(p, tenantId)
        \/ \E tenantId \in Tenants, capability \in Caps :
              callEnforce(p, tenantId, "u", capability)
        \/ SyncStep(p) \/ e_enforce(p) \/ return(p)

SpecResync == InitResync /\ [][NextResync]_vars

\* C11: a reader of tenant t that runs concurrently with syncPolicies(t)
\* sees the whole index of t of before or of after the resync; for a user
\* whose access the stores justify before and after, and who had it in the
\* index when the resync started, enforce during the resync is never false.
C11_Resyncing(q, u, c) ==
    /\ InFlight(q) /\ q.op = "syncPolicies"
    /\ enforce(q.pre.idx, q.t, u, c)
    /\ q.pre.roles = roles /\ q.pre.assignments = assignments
    /\ C10_Justified(q.t, u, c)

C11_ResyncAtomicForReaders ==
    [][\A p \in DOMAIN procs, q \in DOMAIN procs :
          /\ C11_Resyncing(procs[p], procs[q].u, procs[q].c)
          /\ procs[q].op = "enforce" /\ procs[q].t = procs[p].t
          /\ procs[q].pc = "e_enforce" /\ procs'[q].pc = "fin"
          => procs'[q].res.allowed]_vars

\* the role store holds a role whose fields are tenant t and role id r
HoldsRole(rs, t, r) == \E role \in Values(rs) : role.tenantId = t /\ role.roleId = r

\* C12: assignRole(t,u,r) fails with role-not-found whenever the role store
\* holds no role with tenantId = t and roleId = r (also when the id exists
\* in another tenant only), and then the assignment store and the index are
\* unchanged.
C12_AssignRequiresRole ==
    \A p \in DOMAIN procs :
        /\ procs[p].pc = "done" /\ procs[p].op = "assignRole"
        /\ ~HoldsRole(procs[p].pre.roles, procs[p].t, procs[p].r)
        => /\ ~procs[p].res.ok
           /\ assignments = procs[p].pre.assignments
           /\ Cur = procs[p].pre.idx

\* the entries InMemoryUserRoleStorage.getUserRoles maps to role ids (the
\* length of the array it returns is their number)
URS_userEntries(as, tenantId, userId) ==
    {k \in DOMAIN as : startsWith(k, URS_getUserKey(tenantId, userId))}

\* the length of the array PermissionsService.getUserRoles returns
svcUserRolesLen(rs, as, tenantId, userId) ==
    Cardinality({k \in URS_userEntries(as, tenantId, userId) :
                    RS_has(rs, tenantId, as[k].roleId)})

\* C13: a second assignRole with the same (tenant, user, roleId) leaves one
\* assignment edge in the store and one membership edge in the index, and
\* the length of getUserRoles(tenant, user) of store, service and engine is
\* what it was after the first call.
C13_Repeated(q) ==
    /\ q.pc = "done" /\ q.op = "assignRole" /\ q.res.ok
    /\ URS_getKey(q.t, q.u, q.r) \in DOMAIN q.pre.assignments
    /\ q.pre.assignments[URS_getKey(q.t, q.u, q.r)] = Assignment(q.t, q.u, q.r)
    /\ <<q.u, q.r, q.t>> \in Range(q.pre.idx.g)

C13_AssignIdempotent ==
    \A p \in DOMAIN procs :
        C13_Repeated(procs[p]) =>
            LET q == procs[p] IN
            /\ Cardinality({k \in DOMAIN assignments :
                              assignments[k] = Assignment(q.t, q.u, q.r)}) = 1
            /\ Len(SelectSeq(Cur.g, LAMBDA x : x = <<q.u, q.r, q.t>>)) = 1
            /\ Cardinality(URS_userEntries(assignments, q.t, q.u))
                 = Cardinality(URS_userEntries(q.pre.assignments, q.t, q.u))
            /\ svcUserRolesLen(roles, assignments, q.t, q.u)
                 = svcUserRolesLen(q.pre.roles, q.pre.assignments, q.t, q.u)
            /\ Len(getUserRoles(Cur, q.t, q.u)) = Len(getUserRoles(q.pre.idx, q.t, q.u))

\* a second assignRole of a triple has completed
C13_Witness == \E p \in DOMAIN procs : C13_Repeated(procs[p])

\* the union of the capability sets of the stored roles of tenant t whose
\* assignment edge (t, u, roleId) is stored
HeldCaps(rs, as, t, u) ==
    UNION {role.capabilities :
             role \in {x \in Values(rs) :
                          /\ x.tenantId = t
                          /\ Assignment(t, u, x.roleId) \in Values(as)}}

\* C14: getUserCapabilities(t,u) of the service and of the engine is exactly
\* the union of the capability sets of the roles the user holds in t (a set,
\* so without duplicates and the same for every order of assignment).
C14_CapabilitiesAreUnion ==
    Quiescent =>
        \A t \in Tenants, u \in Users :
            /\ svcUserCapabilities(roles, assignments, t, u) = HeldCaps(roles, assignments, t, u)
            /\ getUserCapabilities(Cur, t, u) = HeldCaps(roles, assignments, t, u)

(***************************************************************************)
(* The service with its permission checks: one caller, one tenant          *)
(***************************************************************************)
MaxCheckOps == 4
MaxCaps == 3

\* the capability lists a caller passes
CapLists == UNION {[1..n -> Caps] : n \in 0..MaxCaps}

InitCheck == Fresh({1}, MaxCheckOps)

NextCheck ==
    \/ ServiceStart(1, {"a"}, Users, GenIds, {{"m:x"}, {"m:x", "m:y"}})
    \/ \E userId \in Users, capabilities \in CapLists :
          checkPermissions(1, "a", userId, capabilities)
    \/ \E userId \in Users, capabilities \in CapLists :
          checkAnyPermission(1, "a", userId, capabilities)
    \/ \E userId \in Users, capability \in Caps : checkPermission(1, "a", userId, capability)
    \/ initialize(1) \/ ensureReturn(1)
    \/ EngineStep(1) \/ ServiceStep(1) \/ CheckStep(1) \/ AggregateStep(1) \/ return(1)

SpecCheck == InitCheck /\ [][NextCheck]_vars

\* what checkPermission(t,u,c) returns in a state nobody changes meanwhile
checkAllowed(e, t, u, c) == enforce(e, t, u, c)

RECURSIVE namesOf(_, _, _)
namesOf(rs, t, roleIds) ==
    IF roleIds = <<>> THEN <<>>
    ELSE LET role == RS_getRole(rs, t, Head(roleIds))
         IN  (IF role = NoRole THEN <<>> ELSE <<grantedByEntry(role)>>)
                 \o namesOf(rs, t, Tail(roleIds))

checkGrantedBy(rs, e, t, u, c) ==
    IF enforce(e, t, u, c) THEN namesOf(rs, t, getGrantingRoles(e, t, u, c)) ELSE <<>>

\* C15: checkPermissions is allowed iff every capability of the list is
\* allowed by checkPermission (an empty list is allowed); when allowed,
\* grantedBy is the duplicate-free union of the capabilities' provenance;
\* when denied, grantedBy is empty and the reason lists the capabilities that
\* were not allowed, verbatim and in the order supplied.
C15_Done(q) == q.pc = "done" /\ q.op = "checkPermissions" /\ q.res.ok

C15_AllOf ==
    \A p \in DOMAIN procs :
        C15_Done(procs[p]) =>
            LET q == procs[p]
                ok(c) == checkAllowed(Cur, q.t, q.u, c)
                prov == UNION {Range(checkGrantedBy(roles, Cur, q.t, q.u, c)) :
                                  c \in Range(q.capabilities)}
            IN  /\ q.res.allowed <=> \A c \in Range(q.capabilities) : ok(c)
                /\ q.res.allowed =>
                     /\ Range(q.res.grantedBy) = prov
                     /\ Len(q.res.grantedBy) = Cardinality(prov)
                /\ ~q.res.allowed =>
                     /\ q.res.grantedBy = <<>>
                     /\ q.res.reason = "User is missing capabilities: " \o
                           join(SelectSeq(q.capabilities, LAMBDA c : ~ok(c)), ", ")

\* an allowed check whose capabilities share a granting role, a denied check
\* with missing capabilities around an allowed one
C15_Witness ==
    \E p \in DOMAIN procs :
        /\ C15_Done(procs[p]) /\ procs[p].res.allowed
        /\ Len(procs[p].capabilities) = 2
        /\ Len(procs[p].res.grantedBy) = 1

C15_WitnessDenied ==
    \E p \in DOMAIN procs :
        /\ C15_Done(procs[p]) /\ ~procs[p].res.allowed
        /\ procs[p].res.reason = "User is missing capabilities: m:y"
        /\ procs[p].capabilities = <<"m:y", "m:x">>

\* C16: checkAnyPermission is allowed iff at least one capability of the list
\* is allowed by checkPermission (an empty list is denied); when allowed,
\* grantedBy is the provenance of the first allowed capability in the order
\* supplied, and no capability after that one is asked about.
C16_Done(q) == q.pc = "done" /\ q.op = "checkAnyPermission" /\ q.res.ok

C16_AnyOf ==
    \A p \in DOMAIN procs :
        C16_Done(procs[p]) =>
            LET q == procs[p]
                ok(c) == checkAllowed(Cur, q.t, q.u, c)
                hits == {i \in 1..Len(q.capabilities) : ok(q.capabilities[i])}
                first == CHOOSE i \in hits : \A j \in hits : i <= j
            IN  /\ q.res.allowed <=> hits # {}
                /\ q.res.allowed =>
                     /\ q.res.grantedBy =
                           checkGrantedBy(roles, Cur, q.t, q.u, q.capabilities[first])
                     /\ q.asked = SubSeq(q.capabilities, 1, first)
                /\ ~q.res.allowed => q.res.grantedBy = <<>> /\ q.asked = q.capabilities

\* an allowed check that stopped at a capability granted by a stored role,
\* before the end of its list
C16_Witness ==
    \E p \in DOMAIN procs :
        /\ C16_Done(procs[p]) /\ procs[p].res.allowed
        /\ procs[p].res.grantedBy # <<>>
        /\ 1 < Len(procs[p].asked)
        /\ Len(procs[p].asked) < Len(procs[p].capabilities)

\* C17: when checkPermission allows access, its result has a matchedRoles
\* property, and that list contains the roleId of every role that granted
\* the capability to the user.
C17_MatchedRoles ==
    \A p \in DOMAIN procs :
        LET q == procs[p] IN
        q.pc = "done" /\ q.op = "checkPermission" /\ q.res.ok /\ q.res.allowed =>
            /\ q.res.matchedRoles # {}
            /\ \A matchedRoles \in q.res.matchedRoles :
                  Range(getGrantingRoles(Cur, q.t, q.u, q.c)) \subseteq Range(matchedRoles)

(***************************************************************************)
(* The engine with getGrantingRoles: one caller                            *)
(***************************************************************************)
MaxGrantingOps == 5

InitGranting == Fresh({1}, MaxGrantingOps)

NextGranting ==
    \/ EngineStart(1, Tenants, {"u"}, GenIds, {"m:x"})
    \/ \E tenantId \in Tenants : callGetGrantingRoles(1, tenantId, "u", "m:x")
    \/ initialize(1) \/ ensureReturn(1)
    \/ EngineStep(1) \/ e_removePolicy(1)
    \/ e_grantingSnapshot(1) \/ e_grantingCheck(1) \/ e_grantingReturn(1) \/ return(1)

SpecGranting == InitGranting /\ [][NextGranting]_vars

\* the position of an element in a sequence that holds it
Pos(seq, x) == CHOOSE i \in 1..Len(seq) : seq[i] = x

\* a list holds exactly the roles with membership edge (t,u,r) and grant edge
\* (t,r,c) in the index e, each once, in the order of the membership edges
C18_ExactOnceOrdered(list, e, t, u, c) ==
    /\ Range(list) = {r \in RoleIds : <<u, r, t>> \in Range(e.g) /\ <<r, t, c>> \in e.p}
    /\ \A i, j \in 1..Len(list) : list[i] = list[j] => i = j
    /\ \A i, j \in 1..Len(list) :
          i < j => Pos(e.g, <<u, list[i], t>>) < Pos(e.g, <<u, list[j], t>>)

\* the membership edges keep their order, and one addUserRole adds comes
\* after all that are there
C18_AddedLast(g, h) ==
    /\ \A x, y \in Range(g) \cap Range(h) : Pos(g, x) < Pos(g, y) => Pos(h, x) < Pos(h, y)
    /\ \A x \in Range(g) \cap Range(h), y \in Range(h) \ Range(g) : Pos(h, x) < Pos(h, y)
    /\ \A i, j \in 1..Len(h) : h[i] = h[j] => i = j

C18_Returned(q) == q.pc = "done" /\ q.op = "getGrantingRoles" /\ q.res.ok

\* C18: getGrantingRoles(t,u,c) returns exactly the roles, each once, with
\* membership edge (t,u,r) and grant edge (t,r,c) in the index, in the order
\* in which addUserRole added the membership edges; the list is a function
\* of the index state.
C18_GrantingRoles ==
    [][ /\ C18_AddedLast(Cur.g, Cur'.g)
        /\ \A p \in DOMAIN procs :
              C18_Returned(procs'[p]) =>
                 LET q == procs'[p] IN
                 /\ C18_ExactOnceOrdered(q.res.grantingRoles, Cur', q.t, q.u, q.c)
                 /\ q.res.grantingRoles = getGrantingRoles(Cur', q.t, q.u, q.c)
      ]_vars

\* a call has returned two roles, the one whose membership edge is older first
C18_Witness ==
    \E p \in DOMAIN procs :
        /\ C18_Returned(procs[p])
        /\ procs[p].res.grantingRoles = <<"s", "r">>

\* C19: getRole(tenantId, roleId) returns null or a role whose tenantId and
\* roleId are the arguments, also for ids that contain ':', and createRole
\* for a pair is blocked only by a role stored for that pair.
C19_RoleStoreIsolation ==
    \A t \in Tenants, r \in RoleIds :
        /\ RS_getRole(roles, t, r) # NoRole =>
              /\ RS_getRole(roles, t, r).tenantId = t
              /\ RS_getRole(roles, t, r).roleId = r
        /\ RS_has(roles, t, r) => HoldsRole(roles, t, r)

\* C20: getUserRoles(t,u) returns exactly the roleIds r, and getRoleUsers(t,r)
\* exactly the userIds u, for which the edge (t,u,r) is stored, also for ids
\* that contain ':'; edges of another tenant or user never appear.
C20_AssignmentStoreScoping ==
    /\ \A t \in Tenants, u \in Users :
          URS_getUserRoles(assignments, t, u)
             = {r \in RoleIds : Assignment(t, u, r) \in Values(assignments)}
    /\ \A t \in Tenants, r \in RoleIds :
          URS_getRoleUsers(assignments, t, r)
             = {u \in Users : Assignment(t, u, r) \in Values(assignments)}

(***************************************************************************)
(* The mutating service operations run alone, from call to return          *)
(***************************************************************************)
\* clearRolePolicies and the addRolePolicy loop, run to their end
seq_clearRolePolicies(e, tenantId, roleId) ==
    [e EXCEPT !.p = @ \ C_getFilteredPolicy(e, 0, <<roleId, tenantId>>)]
seq_addRolePolicies(e, tenantId, roleId, capabilities) ==
    [e EXCEPT !.p = @ \cup {<<roleId, tenantId, c>> : c \in capabilities}]

\* stores and index after the call q run alone on stores and index st, with
\* the call's outcome
seq_createRole(st, q) ==
    IF RS_has(st.roles, q.t, q.r) THEN [st EXCEPT !.ok = FALSE]
    ELSE [st EXCEPT !.roles = RS_createRole(@, [tenantId |-> q.t, roleId |-> q.r,
                                                 name |-> q.name, capabilities |-> q.caps]),
                    !.idx = seq_addRolePolicies(@, q.t, q.r, q.caps), !.ok = TRUE]

seq_updateRole(st, q) ==
    IF ~RS_has(st.roles, q.t, q.r) THEN [st EXCEPT !.ok = FALSE]
    ELSE [st EXCEPT !.roles = RS_updateRole(@, q.t, q.r, q.hasName, q.name, q.hasCaps, q.caps),
                    !.idx = IF q.hasCaps
                            THEN seq_addRolePolicies(seq_clearRolePolicies(@, q.t, q.r),
                                                     q.t, q.r, q.caps)
                            ELSE @,
                    !.ok = TRUE]

seq_deleteRole(st, q) ==
    [st EXCEPT !.idx = seq_clearRolePolicies(@, q.t, q.r),
               !.roles = RS_deleteRole(@, q.t, q.r), !.ok = TRUE]

seq_assignRole(st, q) ==
    IF ~RS_has(st.roles, q.t, q.r) THEN [st EXCEPT !.ok = FALSE]
    ELSE [st EXCEPT !.assignments = URS_assignRole(@, Assignment(q.t, q.u, q.r)),
                    !.idx = C_addGroupingPolicy(@, <<q.u, q.r, q.t>>), !.ok = TRUE]

seq_removeRole(st, q) ==
    [st EXCEPT !.assignments = URS_removeRole(@, q.t, q.u, q.r),
               !.idx = C_removeGroupingPolicy(@, <<q.u, q.r, q.t>>), !.ok = TRUE]

seqApply(st, q) ==
    CASE q.op = "createRole" -> seq_createRole(st, q)
      [] q.op = "updateRole" -> seq_updateRole(st, q)
      [] q.op = "deleteRole" -> seq_deleteRole(st, q)
      [] q.op = "assignRole" -> seq_assignRole(st, q)
      [] q.op = "removeRole" -> seq_removeRole(st, q)
      [] OTHER -> st

\* stores and index as one record, with the outcome of the last call
StateOf(snapshot) ==
    [roles |-> snapshot.roles, assignments |-> snapshot.assignments,
     idx |-> snapshot.idx, ok |-> TRUE]

\* a call run alone ends as seqApply says
SeqAgrees ==
    \A p \in DOMAIN procs :
        procs[p].pc = "done" /\ procs[p].op \in
            {"createRole", "updateRole", "deleteRole", "assignRole", "removeRole"} =>
            LET after == seqApply(StateOf(procs[p].pre), procs[p])
            IN  /\ roles = after.roles /\ assignments = after.assignments
                /\ Cur = after.idx /\ procs[p].res.ok = after.ok

(***************************************************************************)
(* Two callers, one operation each, on two tenants: a fresh service, or    *)
(* one whose tenants hold a role and an assignment each                    *)
(***************************************************************************)
MaxCrossOps == 2

TenantOf(p) == IF p = 1 THEN "a" ELSE "a:b"

\* the two services the callers may find
CrossFresh == [roles |-> EmptyMap, assignments |-> EmptyMap, idx |-> EmptyEnforcer]
CrossPopulated ==
    [roles |-> RoleMap({Role("a", "r", {"m:x"}), Role("a:b", "s", {"m:x"})}),
     assignments |-> AssignmentMap({Assignment("a", "u", "r"), Assignment("a:b", "u", "s")}),
     idx |-> [p |-> {<<"r", "a", "m:x">>, <<"s", "a:b", "m:x">>},
              g |-> <<<<"u", "r", "a">>, <<"u", "s", "a:b">>>>]]

InitCross ==
    /\ procs = [p \in {1, 2} |-> IdleProc]
    /\ ops = MaxCrossOps
    /\ \/ /\ roles = CrossFresh.roles /\ assignments = CrossFresh.assignments
          /\ enforcer = 0 /\ insts = <<>> /\ issued = {}
       \/ /\ roles = CrossPopulated.roles /\ assignments = CrossPopulated.assignments
          /\ enforcer = 1 /\ insts = <<CrossPopulated.idx>>
          /\ issued = {"r", "s"}

NextCross ==
    \E p \in {1, 2} :
        \/ procs[p].pc = "idle" /\ ServiceStart(p, {TenantOf(p)}, {"u"}, GenIds, {{"m:y"}})
        \/ initialize(p) \/ ensureReturn(p)
        \/ EngineStep(p) \/ ServiceStep(p) \/ return(p)

SpecCross == InitCross /\ [][NextCross]_vars

\* C21: a service operation on one tenant and one on another tenant, started
\* concurrently (also as the first calls on a fresh service), end in the
\* stores, index and results of running the two one after the other.
C21_BothDone == \A p \in {1, 2} : procs[p].pc = "done"

C21_CrossTenantIndependence ==
    C21_BothDone =>
        LET init == IF \E p \in {1, 2} : procs[p].pre.roles = EmptyMap
                    THEN StateOf(CrossFresh) ELSE StateOf(CrossPopulated)
        IN  \E p \in {1, 2} :
               LET mid == seqApply(init, procs[p])
                   end == seqApply(mid, procs[3 - p])
               IN  /\ roles = end.roles /\ assignments = end.assignments
                   /\ Cur = end.idx
                   /\ procs[p].res.ok = mid.ok /\ procs[3 - p].res.ok = end.ok

\* what the service's queries return for (t,u) on stores rs, as and index e:
\* checkPermission(...).allowed per capability, getUserRoles as a set of
\* role ids, getUserCapabilities, and roles and capabilities of
\* buildPolicyContext
C22_Answers(rs, as, e, t, u) ==
    [allowed |-> {c \in Caps : checkAllowed(e, t, u, c)},
     roleIds |-> {role.roleId : role \in svcUserRoles(rs, as, t, u)},
     caps |-> svcUserCapabilities(rs, as, t, u),
     context |-> <<{role.roleId : role \in svcUserRoles(rs, as, t, u)},
                   svcUserCapabilities(rs, as, t, u)>>]

\* C22: query results depend only on the index: the state a completed call
\* started from and the state it ended in, when their index contents are the
\* same, give the same answers, whatever the stores hold.
C22_AnswersFromIndexOnly ==
    \A p \in DOMAIN procs :
        procs[p].pc = "done" /\ procs[p].pre.idx = Cur =>
            \A t \in Tenants, u \in Users :
                C22_Answers(procs[p].pre.roles, procs[p].pre.assignments, procs[p].pre.idx, t, u)
                    = C22_Answers(roles, assignments, Cur, t, u)

\* C23: in every mutating service operation the write to the canonical store
\* comes before any mutation the operation applies to the index: when a
\* call changes a store, the index is still as the call found it.
C23_StoreWrittenFirst ==
    [][ roles' # roles \/ assignments' # assignments =>
            \A p \in DOMAIN procs :
                procs'[p] # procs[p] => Cur = procs'[p].pre.idx ]_vars

(***************************************************************************)
(* The service with a grant propagation that may fail: one caller          *)
(***************************************************************************)
MaxProvisionOps == 3

InitProvision == Fresh({1}, MaxProvisionOps)

NextProvision ==
    \/ ServiceStart(1, {"a"}, {"u"}, GenIds, {{"m:x"}, {"m:x", "m:y"}})
    \/ initialize(1) \/ ensureReturn(1)
    \/ EngineStep(1) \/ e_addPolicyFails(1) \/ ServiceStep(1) \/ return(1)

SpecProvision == InitProvision /\ [][NextProvision]_vars

\* C24: createRole never returns a role normally while some capability of
\* that role has no grant edge in the index; a failed addRolePolicy after
\* the store write ends the call with an error.
C24_NoSilentPartialRole ==
    \A p \in DOMAIN procs :
        procs[p].pc = "done" /\ procs[p].op = "createRole" /\ procs[p].res.ok =>
            \A c \in procs[p].caps : <<procs[p].r, procs[p].t, c>> \in Cur.p

\* createRole has raised an error for a role that is stored with one of its
\* two grants in the index
C24_Witness ==
    \E p \in DOMAIN procs :
        /\ procs[p].pc = "done" /\ procs[p].op = "createRole" /\ ~procs[p].res.ok
        /\ HoldsRole(roles, procs[p].t, procs[p].r)
        /\ \E c, d \in procs[p].caps :
              /\ <<procs[p].r, procs[p].t, c>> \in Cur.p
              /\ <<procs[p].r, procs[p].t, d>> \notin Cur.p

\* C25: no role inheritance. With membership edges (t,u,r1) and (t,r1,r2),
\* the grant (t,r2,c), no grant (t,r1,c) and no role of the user's own that
\* grants c, enforce(t,u,c) is false and getUserCapabilities(t,u) lacks c.
C25_Chain(e, t, u, r1, r2, c) ==
    /\ <<u, r1, t>> \in Range(e.g) /\ <<r1, r2, t>> \in Range(e.g)
    /\ <<r2, t, c>> \in e.p /\ <<r1, t, c>> \notin e.p
    /\ DirectGranting(e, t, u, c) = {} /\ <<u, t, c>> \notin e.p

C25_NoInheritance ==
    \A t \in Tenants, u \in Users, r1 \in Users \cap RoleIds, r2 \in RoleIds, c \in Caps :
        C25_Chain(Cur, t, u, r1, r2, c) =>
            /\ ~enforce(Cur, t, u, c)
            /\ c \notin getUserCapabilities(Cur, t, u)

(***************************************************************************)
(* InMemoryRoleStorage called directly, with roles and ids the caller      *)
(* chooses; a method has no await and runs from call to return             *)
(***************************************************************************)
MaxStoreOps == 3

\* the roles and the Partial<Role> objects a caller passes
StoreRoles ==
    [tenantId : Tenants, roleId : RoleIds, createdAt : {1}, name : {"n"},
     capabilities : {{"m:x"}}]
StoreUpdates ==
    {[name |-> "n2"], [capabilities |-> {"m:y"}],
     [name |-> "n2", tenantId |-> "a:b", roleId |-> "s", createdAt |-> 2]}

st_createRole(p, role) ==
    /\ CanStart(p)
    /\ LET rec == [Call("st_createRole", role.tenantId, "", role.roleId, "") EXCEPT
                      !.role = role]
       IN  IF RS_has(roles, role.tenantId, role.roleId)
           THEN roles' = roles /\ SetProc(p, Throw(rec))
           ELSE /\ roles' = RS_createRole(roles, role)
                /\ SetProc(p, Finish(rec, [NoRes EXCEPT !.role = role]))
    /\ Started
    /\ UNCHANGED <<assignments, enforcer, insts, issued>>

st_getRole(p, tenantId, roleId) ==
    /\ CanStart(p)
    /\ SetProc(p, Finish(Call("st_getRole", tenantId, "", roleId, ""),
                         [NoRes EXCEPT !.role = RS_getRole(roles, tenantId, roleId)]))
    /\ Started
    /\ UNCHANGED <<roles, assignments, enforcer, insts, issued>>

st_updateRole(p, tenantId, roleId, updates) ==
    /\ CanStart(p)
    /\ LET rec == [Call("st_updateRole", tenantId, "", roleId, "") EXCEPT
                      !.updates = updates]
       IN  IF ~RS_has(roles, tenantId, roleId)
           THEN roles' = roles /\ SetProc(p, Throw(rec))
           ELSE /\ roles' = RS_updateRolePartial(roles, tenantId, roleId, updates)
                /\ SetProc(p, Finish(rec, [NoRes EXCEPT !.role =
                       RS_mergePartial(RS_getRole(roles, tenantId, roleId), updates)]))
    /\ Started
    /\ UNCHANGED <<assignments, enforcer, insts, issued>>

st_deleteRole(p, tenantId, roleId) ==
    /\ CanStart(p)
    /\ roles' = RS_deleteRole(roles, tenantId, roleId)
    /\ SetProc(p, Finish(Call("st_deleteRole", tenantId, "", roleId, ""), NoRes))
    /\ Started
    /\ UNCHANGED <<assignments, enforcer, insts, issued>>

InitStore == Fresh({1}, MaxStoreOps)

NextStore ==
    \/ \E role \in StoreRoles : st_createRole(1, role)
    \/ \E tenantId \in Tenants, roleId \in RoleIds : st_getRole(1, tenantId, roleId)
    \/ \E tenantId \in Tenants, roleId \in RoleIds, updates \in StoreUpdates :
          st_updateRole(1, tenantId, roleId, updates)
    \/ \E tenantId \in Tenants, roleId \in RoleIds : st_deleteRole(1, tenantId, roleId)

SpecStore == InitStore /\ [][NextStore]_vars

\* C26: RoleStore.createRole(role) fails when a role with the same
\* (tenantId, roleId) is present, and then the store is unchanged; otherwise
\* it stores the role and returns it unchanged, and getRole(tenantId, roleId)
\* returns that role.
C26_CreateRole ==
    \A p \in DOMAIN procs :
        LET q == procs[p] IN
        q.pc = "done" /\ q.op = "st_createRole" =>
            IF HoldsRole(q.pre.roles, q.role.tenantId, q.role.roleId)
            THEN ~q.res.ok /\ roles = q.pre.roles
            ELSE /\ q.res.ok /\ q.res.role = q.role
                 /\ RS_getRole(roles, q.role.tenantId, q.role.roleId) = q.role

\* C27: RoleStore.updateRole(t, r, partial) fails and changes nothing when
\* (t,r) is absent; otherwise the stored and returned role has the supplied
\* fields merged over the existing ones, with roleId, tenantId and createdAt
\* as before whatever partial says, and every other role is unchanged.
C27_UpdateRole ==
    \A p \in DOMAIN procs :
        LET q == procs[p] IN
        q.pc = "done" /\ q.op = "st_updateRole" =>
            IF ~HoldsRole(q.pre.roles, q.t, q.r)
            THEN ~q.res.ok /\ roles = q.pre.roles
            ELSE LET old == CHOOSE role \in Values(q.pre.roles) :
                               role.tenantId = q.t /\ role.roleId = q.r
                     new == RS_getRole(roles, q.t, q.r)
                 IN  /\ q.res.ok /\ q.res.role = new
                     /\ new.roleId = old.roleId /\ new.tenantId = old.tenantId
                     /\ new.createdAt = old.createdAt
                     /\ new.name = IF "name" \in DOMAIN q.updates THEN q.updates.name
                                   ELSE old.name
                     /\ new.capabilities =
                           IF "capabilities" \in DOMAIN q.updates
                           THEN q.updates.capabilities ELSE old.capabilities
                     /\ DOMAIN roles = DOMAIN q.pre.roles
                     /\ \A k \in DOMAIN roles :
                           roles[k] # q.pre.roles[k] => roles[k] = new /\ q.pre.roles[k] = old

\* C28: service.updateRole(t, r, partial) on a role that is missing in
\* tenant t, from the start or because a concurrent deleteRole(t,r) removed
\* it during the call, fails with role-not-found and has no effect: when the
\* call returns with the role absent from the role store, it returns an error
\* and the index holds no grant of r that was not there when it started.
C28_Returns(p) ==
    /\ procs[p].op = "updateRole" /\ procs[p].pc # "done" /\ procs'[p].pc = "done"
    /\ ~HoldsRole(roles', procs[p].t, procs[p].r)

C28_UpdateOfMissingRole ==
    [][ \A p \in DOMAIN procs :
            C28_Returns(p) =>
                /\ ~procs'[p].res.ok
                /\ C_getFilteredPolicy(Cur', 0, <<procs[p].r, procs[p].t>>)
                      \subseteq procs[p].pre.idx.p ]_vars

(***************************************************************************)
(* The service with user ids that contain ':': one caller                  *)
(***************************************************************************)
MaxRemoveOps == 3

NextRemove ==
    \/ ServiceStart(1, Tenants, {"u", "b:u"}, GenIds, {{"m:x"}})
    \/ initialize(1) \/ ensureReturn(1)
    \/ EngineStep(1) \/ ServiceStep(1) \/ return(1)

SpecRemove == Fresh({1}, MaxRemoveOps) /\ [][NextRemove]_vars

\* C29: removeRole(t,u,r) always succeeds; afterwards neither the assignment
\* store nor the index holds the edge (t,u,r), every other assignment,
\* membership edge and grant is unchanged, and a second identical call
\* leaves the whole state unchanged.
C29_RemoveRole ==
    \A p \in DOMAIN procs :
        LET q == procs[p]
            edge == <<q.u, q.r, q.t>>
        IN  q.pc = "done" /\ q.op = "removeRole" =>
               /\ q.res.ok
               /\ Values(assignments) = Values(q.pre.assignments) \ {Assignment(q.t, q.u, q.r)}
               /\ Cur.g = SelectSeq(q.pre.idx.g, LAMBDA x : x # edge)
               /\ Cur.p = q.pre.idx.p
               /\ roles = q.pre.roles
               /\ (Assignment(q.t, q.u, q.r) \notin Values(q.pre.assignments)
                      /\ edge \notin Range(q.pre.idx.g)
                   => assignments = q.pre.assignments /\ Cur = q.pre.idx)

\* C30: deleteRole(t,r) completes without error; for a stored role, also one
\* that still has assignment edges, it removes the role from the role store
\* and all of its grant edges from the index and leaves every assignment
\* edge unchanged; for an absent role it is a no-op.
C30_DeleteRole ==
    \A p \in DOMAIN procs :
        LET q == procs[p] IN
        q.pc = "done" /\ q.op = "deleteRole" =>
            /\ q.res.ok
            /\ assignments = q.pre.assignments
            /\ Cur.g = q.pre.idx.g
            /\ IF HoldsRole(q.pre.roles, q.t, q.r)
               THEN /\ Values(roles) = {role \in Values(q.pre.roles) :
                                           ~(role.tenantId = q.t /\ role.roleId = q.r)}
                    /\ Cur.p = {x \in q.pre.idx.p : ~(x[1] = q.r /\ x[2] = q.t)}
               ELSE roles = q.pre.roles /\ Cur = q.pre.idx

(***************************************************************************)
(* The service called with any strings: every method validates first       *)
(***************************************************************************)
\* a call whose validate throws: the method ends there
rejected(p, rec) ==
    /\ CanStart(p)
    /\ SetProc(p, Throw(rec))
    /\ Started
    /\ UNCHANGED <<roles, assignments, enforcer, insts, issued>>

\* createRole from its first statement, validate(CreateRoleInputSchema, input)
callCreateRole(p, tenantId, name, capabilities) ==
    IF CreateRoleInputSchema(tenantId, name, capabilities)
    THEN createRole(p, tenantId, name, capabilities)
    ELSE rejected(p, [Call("createRole", tenantId, "", "", "") EXCEPT
                         !.hasName = TRUE, !.name = name,
                         !.hasCaps = TRUE, !.caps = capabilities])

\* updateRole from its three validate calls
callUpdateRole(p, tenantId, roleId, hasName, name, hasCaps, capabilities) ==
    IF /\ TenantIdSchema(tenantId)
       /\ RoleIdSchema(roleId)
       /\ UpdateRoleInputSchema(hasName, name, hasCaps, capabilities)
    THEN updateRole(p, tenantId, roleId, hasName, name, hasCaps, capabilities)
    ELSE rejected(p, [Call("updateRole", tenantId, "", roleId, "") EXCEPT
                         !.hasName = hasName, !.name = name,
                         !.hasCaps = hasCaps, !.caps = capabilities])

callDeleteRole(p, tenantId, roleId) ==
    IF TenantIdSchema(tenantId) /\ RoleIdSchema(roleId)
    THEN deleteRole(p, tenantId, roleId)
    ELSE rejected(p, Call("deleteRole", tenantId, "", roleId, ""))

callAssignRole(p, tenantId, userId, roleId) ==
    IF AssignRoleInputSchema(tenantId, userId, roleId)
    THEN assignRole(p, tenantId, userId, roleId)
    ELSE rejected(p, Call("assignRole", tenantId, userId, roleId, ""))

callRemoveRole(p, tenantId, userId, roleId) ==
    IF TenantIdSchema(tenantId) /\ UserIdSchema(userId) /\ RoleIdSchema(roleId)
    THEN removeRole(p, tenantId, userId, roleId)
    ELSE rejected(p, Call("removeRole", tenantId, userId, roleId, ""))

callCheckPermission(p, tenantId, userId, capability) ==
    IF PermissionCheckInputSchema(tenantId, userId, capability)
    THEN checkPermission(p, tenantId, userId, capability)
    ELSE rejected(p, Call("checkPermission", tenantId, userId, "", capability))

\* checkPermissions and checkAnyPermission validate tenantId and userId; each
\* capability is validated by the checkPermission call that reaches it
callCheckPermissions(p, tenantId, userId, capabilities) ==
    IF TenantIdSchema(tenantId) /\ UserIdSchema(userId)
    THEN checkPermissions(p, tenantId, userId, capabilities)
    ELSE rejected(p, [Call("checkPermissions", tenantId, userId, "", "") EXCEPT
                         !.capabilities = capabilities])

callCheckAnyPermission(p, tenantId, userId, capabilities) ==
    IF TenantIdSchema(tenantId) /\ UserIdSchema(userId)
    THEN checkAnyPermission(p, tenantId, userId, capabilities)
    ELSE rejected(p, [Call("checkAnyPermission", tenantId, userId, "", "") EXCEPT
                         !.capabilities = capabilities])

\* String.prototype.repeat
RECURSIVE repeat(_, _)
repeat(s, count) == IF count = 0 THEN "" ELSE s \o repeat(s, count - 1)

MaxValidateOps == 3

\* identifiers: a usual one, the empty string, a string of 256 characters
TooLong == repeat("x", 256)
ValidateTenants == {"a", "", TooLong}
ValidateUsers == {"u", "", TooLong}
ValidateRoleIds == GenIds \cup {"", TooLong}
\* capabilities: of the form module:action, without ':', with two ':', with
\* an upper-case letter, with an empty action
ValidateCaps == {"m:x", "mx", "m:x:y", "M:x", "m:"}
ValidateCapSets == {{"m:x"}, {"m:x", "mx"}, {"M:x"}, {"m:x:y", "m:"}}
ValidateCapLists == {<<"m:x">>, <<"mx">>, <<"m:x", "mx">>, <<"m:x", "M:x", "m:x">>}

NextValidate ==
    \/ \E tenantId \in ValidateTenants, capabilities \in ValidateCapSets :
          callCreateRole(1, tenantId, "n", capabilities)
    \/ \E tenantId \in ValidateTenants, roleId \in Usable(ValidateRoleIds),
          capabilities \in ValidateCapSets :
          callUpdateRole(1, tenantId, roleId, FALSE, "", TRUE, capabilities)
    \/ \E tenantId \in ValidateTenants, roleId \in Usable(ValidateRoleIds) :
          callUpdateRole(1, tenantId, roleId, TRUE, "n2", FALSE, {})
    \/ \E tenantId \in ValidateTenants, roleId \in Usable(ValidateRoleIds) :
          callDeleteRole(1, tenantId, roleId)
    \/ \E tenantId \in ValidateTenants, userId \in ValidateUsers,
          roleId \in Usable(ValidateRoleIds) :
          callAssignRole(1, tenantId, userId, roleId)
    \/ \E tenantId \in ValidateTenants, userId \in ValidateUsers,
          roleId \in Usable(ValidateRoleIds) :
          callRemoveRole(1, tenantId, userId, roleId)
    \/ \E tenantId \in ValidateTenants, userId \in ValidateUsers,
          capability \in ValidateCaps :
          callCheckPermission(1, tenantId, userId, capability)
    \/ \E tenantId \in ValidateTenants, userId \in ValidateUsers,
          capabilities \in ValidateCapLists :
          callCheckPermissions(1, tenantId, userId, capabilities)
    \/ \E tenantId \in ValidateTenants, userId \in ValidateUsers,
          capabilities \in ValidateCapLists :
          callCheckAnyPermission(1, tenantId, userId, capabilities)
    \/ initialize(1) \/ ensureReturn(1)
    \/ EngineStep(1) \/ ServiceStep(1) \/ CheckStep(1) \/ AggregateStep(1) \/ return(1)

SpecValidate == Fresh({1}, MaxValidateOps) /\ [][NextValidate]_vars

\* the capabilities of the universe that have the form module:action
C31_WellFormed == {"m:x", "m:y"}
C31_BadId(s) == Len(s) = 0 \/ Len(s) > 255

\* the call q has an empty or over-long tenantId, userId or roleId, or a
\* capability that is not of the form module:action
C31_Invalid(q) ==
    \/ /\ q.op \in {"createRole", "updateRole", "deleteRole", "assignRole", "removeRole",
                    "checkPermission", "checkPermissions", "checkAnyPermission"}
       /\ C31_BadId(q.t)
    \/ /\ q.op \in {"assignRole", "removeRole", "checkPermission", "checkPermissions",
                    "checkAnyPermission"}
       /\ C31_BadId(q.u)
    \/ /\ q.op \in {"updateRole", "deleteRole", "assignRole", "removeRole"}
       /\ C31_BadId(q.r)
    \/ /\ q.op \in {"createRole", "updateRole"}
       /\ q.hasCaps /\ q.caps \ C31_WellFormed # {}
    \/ q.op = "checkPermission" /\ q.c \notin C31_WellFormed
    \/ /\ q.op \in {"checkPermissions", "checkAnyPermission"}
       /\ Range(q.capabilities) \ C31_WellFormed # {}

C32_IndexViewAgreesWithStoreView ==
    \A p \in DOMAIN procs :
        LET q == procs[p]
        IN  q.op = "checkPermission" /\ q.pc = "done" =>
                /\ q.res.allowed <=> q.c \in HeldCaps(roles, assignments, q.t, q.u)
                /\ q.res.allowed <=> q.c \in svcUserCapabilities(roles, assignments, q.t, q.u)

\* C33: the policy index is created at most once; for every interleaving of
\* first calls on a fresh engine, an edge that a call has added to the Enforcer
\* it was handed is in the index later calls read (no second initialize()
\* puts an empty index in its place).
C33_IndexCreatedOnce ==
    /\ Len(insts) <= 1
    /\ \A k \in DOMAIN insts :
          enforcer # 0 =>
              /\ insts[k].p \subseteq Cur.p
              /\ Range(insts[k].g) \subseteq Range(Cur.g)

\* the calls made so far (each caller's first) are deleteRole(t,r) and
\* updateRole(t,r,{capabilities}) only, all of them completed, and the role
\* store holds no role (t,r)
C34_AllCompleted(t, r) ==
    /\ Quiescent
    /\ ops + Cardinality({p \in DOMAIN procs : procs[p].op # "none"}) = MaxConcOps
    /\ \E p \in DOMAIN procs : procs[p].op = "deleteRole"
    /\ \A p \in DOMAIN procs :
          \/ procs[p].op = "none"
          \/ /\ procs[p].op \in {"deleteRole", "updateRole"}
             /\ procs[p].t = t /\ procs[p].r = r
             /\ procs[p].op = "updateRole" => procs[p].hasCaps
    /\ ~HoldsRole(roles, t, r)

\* C34: for any interleaving of deleteRole(t,r) with concurrent
\* updateRole(t,r,{capabilities}) calls, once all of them have completed and
\* the role is absent from the role store, the index holds no grant edge of
\* (t,r) and enforce(t,u,c) is false for the users whose only role was r.
C34_NoResurrectedGrants ==
    \A t \in {"a"}, r \in GenIds :
        C34_AllCompleted(t, r) =>
            /\ C_getFilteredPolicy(Cur, 0, <<r, t>>) = {}
            /\ \A c \in Caps : ~enforce(Cur, t, "u", c)

\* C35: whenever checkPermission returns allowed = true, its grantedBy list
\* is not empty (also for a userId that equals a roleId, and with mutations
\* running between the enforce step and the provenance step).
C35_AuditableGrants ==
    \A p \in DOMAIN procs :
        /\ procs[p].op = "checkPermission" /\ procs[p].pc = "done"
        /\ procs[p].res.allowed
        => Len(procs[p].res.grantedBy) > 0

\* C36: after service.assignRole(t,u,r) followed by service.deleteRole(t,r),
\* the engine's getUserRoles(t,u) does not return r and its
\* getUserCapabilities(t,u) returns no capability contributed by r.
C36_DanglingEdgeExcluded ==
    \A p \in DOMAIN procs, u \in Users :
        LET q == procs[p]
        IN  /\ q.op = "deleteRole" /\ q.pc = "done"
            /\ Assignment(q.t, u, q.r) \in Values(q.pre.assignments)
            => /\ q.r \notin Range(getUserRoles(Cur, q.t, u))
               /\ getUserCapabilities(Cur, q.t, u)
                     \subseteq getUserCapabilities(
                                   [q.pre.idx EXCEPT !.g = SelectSeq(@, LAMBDA x : x[2] # q.r)],
                                   q.t, u)

(***************************************************************************)
(* Each index primitive applied twice: one caller calls a primitive of a   *)
(* CasbinEnforcer (fresh, or holding some edges) and then repeats the call *)
(* with the same arguments.                                                *)
(***************************************************************************)
MaxTwiceOps == 2

\* the index before the first call
TwiceIndexes ==
    {[p |-> P, g |-> G] :
        P \in SUBSET {<<"s", "a", "m:x">>, <<"s", "a", "m:y">>, <<"r", "a", "m:x">>},
        G \in {<<>>, << <<"u", "s", "a">> >>,
               << <<"u", "s", "a">>, <<"u", "r", "a">> >>,
               << <<"u", "r", "a">>, <<"u", "s", "a">> >>}}

InitTwice ==
    /\ roles = EmptyMap
    /\ assignments = EmptyMap
    /\ \/ enforcer = 0 /\ insts = <<>>
       \/ enforcer = 1 /\ \E e \in TwiceIndexes : insts = <<e>>
    /\ issued = {}
    /\ procs = [p \in {1} |-> IdleProc]
    /\ ops = MaxTwiceOps

\* the call that has returned, once more
again(p) ==
    /\ procs[p].pc = "done"
    /\ EngineStart(p, {procs[p].t}, {procs[p].u}, {procs[p].r}, {procs[p].c})
    /\ procs'[p].op = procs[p].op

NextTwice ==
    \/ procs[1].pc = "idle" /\ EngineStart(1, {"a"}, {"u"}, GenIds, Caps)
    \/ again(1)
    \/ initialize(1) \/ ensureReturn(1)
    \/ EngineStep(1) \/ e_removePolicy(1) \/ return(1)

SpecTwice == InitTwice /\ [][NextTwice]_vars

\* a list without duplicate entries
C37_NoDuplicates(seq) == Cardinality(Range(seq)) = Len(seq)

\* C37: addRolePolicy, removeRolePolicy, clearRolePolicies, addUserRole and
\* removeUserRole are idempotent: the second of two calls with the same
\* arguments succeeds and leaves the index as the first call left it (so
\* enforce, getUserRoles and getGrantingRoles answer the same, without
\* duplicate entries); removing an edge that is not present succeeds and
\* changes nothing.
C37_PrimitivesIdempotent ==
    \A p \in DOMAIN procs :
        LET q == procs[p]
        IN  q.pc = "done" =>
                /\ q.res.ok
                /\ ops <= MaxTwiceOps - 2 => Cur = q.pre.idx
                /\ q.op = "removeRolePolicy" /\ <<q.r, q.t, q.c>> \notin q.pre.idx.p
                      => Cur = q.pre.idx
                /\ q.op = "removeUserRole" /\ <<q.u, q.r, q.t>> \notin Range(q.pre.idx.g)
                      => Cur = q.pre.idx
                /\ \A u \in Users, c \in Caps :
                      /\ C37_NoDuplicates(getUserRoles(Cur, q.t, u))
                      /\ C37_NoDuplicates(getGrantingRoles(Cur, q.t, u, c))

\* addUserRole has been applied twice to an index that held another edge of
\* the user, and its edge is there once
C37_Witness ==
    /\ procs[1].pc = "done" /\ procs[1].op = "addUserRole"
    /\ ops = MaxTwiceOps - 2
    /\ Len(Cur.g) = 2
    /\ <<procs[1].u, procs[1].r, procs[1].t>> \in Range(Cur.g)
    /\ enforce(Cur, "a", "u", "m:x")

\* removeRolePolicy of an absent edge has returned
C37_WitnessAbsent ==
    /\ procs[1].pc = "done" /\ procs[1].op = "removeRolePolicy"
    /\ <<procs[1].r, procs[1].t, procs[1].c>> \notin procs[1].pre.idx.p
    /\ procs[1].pre.idx.p # {}

\* C38: clearRolePolicies(t,r) removes every grant edge (t,r,c) and nothing
\* else: the grants of other roles of t, the grants of a role with the same
\* id in other tenants and all membership edges are unchanged.
C38_ClearRolePolicies ==
    \A p \in DOMAIN procs :
        LET q == procs[p]
        IN  q.op = "clearRolePolicies" /\ q.pc = "done" =>
                /\ q.res.ok
                /\ Cur.p = {rule \in q.pre.idx.p : ~(rule[1] = q.r /\ rule[2] = q.t)}
                /\ Cur.g = q.pre.idx.g

\* clearRolePolicies has removed the grant of a role whose id has a grant in
\* another tenant too
C38_Witness ==
    \E p \in DOMAIN procs, c \in Caps, t \in Tenants :
        /\ procs[p].op = "clearRolePolicies" /\ procs[p].pc = "done"
        /\ <<procs[p].r, procs[p].t, c>> \in procs[p].pre.idx.p
        /\ t # procs[p].t
        /\ \E d \in Caps : <<procs[p].r, t, d>> \in procs[p].pre.idx.p

\* the capabilities the index grants to role r of tenant t
C39_Grants(e, t, r) == {rule[3] : rule \in C_getFilteredPolicy(e, 0, <<r, t>>)}

\* C39: updateRole(t,r,partial) without a capabilities field leaves the
\* capability set of every stored role and every grant and membership edge of
\* the index unchanged; with a capabilities field, once the call has completed
\* without interleaving, the grants of (t,r) in the index are exactly the new
\* set (a capability of the old set only is no longer granted by r).
C39_UpdateRole ==
    \A p \in DOMAIN procs :
        LET q == procs[p]
        IN  q.op = "updateRole" /\ q.pc = "done" =>
                /\ ~q.hasCaps =>
                      /\ Cur = q.pre.idx
                      /\ DOMAIN roles = DOMAIN q.pre.roles
                      /\ \A k \in DOMAIN roles :
                            roles[k].capabilities = q.pre.roles[k].capabilities
                /\ q.hasCaps /\ q.res.ok => C39_Grants(Cur, q.t, q.r) = q.caps

\* updateRole has replaced the capability set of a role by one that drops a
\* capability the role granted
C39_Witness ==
    \E p \in DOMAIN procs :
        /\ procs[p].op = "updateRole" /\ procs[p].pc = "done"
        /\ procs[p].hasCaps /\ procs[p].res.ok
        /\ C39_Grants(procs[p].pre.idx, procs[p].t, procs[p].r) \ procs[p].caps # {}
        /\ procs[p].caps # {}

\* updateRole without a capabilities field has renamed a role that has grants
C39_WitnessName ==
    \E p \in DOMAIN procs :
        /\ procs[p].op = "updateRole" /\ procs[p].pc = "done"
        /\ ~procs[p].hasCaps /\ procs[p].res.ok
        /\ roles # procs[p].pre.roles
        /\ C39_Grants(Cur, procs[p].t, procs[p].r) # {}

====
